---- MODULE Spec2Model ----
(***************************************************************************)
(* Model of the Bato mirror manager (services/bato_mirror_manager.py) and  *)
(* of BatoService (services/bato_service.py): its mirror fallback loops,   *)
(* search_manga and get_series_info.                                       *)
(*                                                                         *)
(* Text is a sequence of tokens: "https://bato.to/" is                     *)
(* <<"https", "://", "bato.to", "/">>.  The delimiters "://", "/", "?",    *)
(* "&", "=", "#" and " " are tokens of their own, every other token is a   *)
(* maximal run of non-delimiter characters, so two texts are equal exactly *)
(* when their token sequences are.                                         *)
(***************************************************************************)
EXTENDS Integers, Sequences, FiniteSets, TLC

VARIABLES
    DEFAULT_MIRRORS,  \* the module-level list of the three built-in dicts
    mirrors,          \* BatoMirrorManager._mirrors
    current_index,    \* BatoMirrorManager._current_index
    file,             \* content of bato_mirrors.json
    alive,            \* FALSE when the constructor raised
    disk,             \* how the disk answers _save_config during this run
    ret,              \* what the last manager operation returned or raised
    cycle,            \* history of the current run of consecutive next_mirror() calls
    edited,           \* a manager operation was called from outside the service
    call,             \* the fallback call in progress, per caller
    svc               \* the BatoService operation in progress, per caller

vars == <<DEFAULT_MIRRORS, mirrors, current_index, file, alive, disk, ret, cycle, edited,
          call, svc>>

----------------------------------------------------------------------------
(* Bounds of the model. *)

\* add_mirror_from_url appends only while the list is shorter than this
MaxMirrors == 3

----------------------------------------------------------------------------
(* Text helpers. *)

Range(s) == {s[i] : i \in 1..Len(s)}

Min(a, b) == IF a <= b THEN a ELSE b

\* index of the first token of s that is in set, Len(s) + 1 when there is none
FirstIdx(s, set) ==
    IF \E i \in 1..Len(s) : s[i] \in set
    THEN CHOOSE i \in 1..Len(s) : s[i] \in set /\ \A j \in 1..(i - 1) : s[j] \notin set
    ELSE Len(s) + 1

\* index of the last token of s that is not in set, 0 when there is none
LastIdxNotIn(s, set) ==
    IF \E i \in 1..Len(s) : s[i] \notin set
    THEN CHOOSE i \in 1..Len(s) : s[i] \notin set /\ \A j \in (i + 1)..Len(s) : s[j] \in set
    ELSE 0

\* str.strip(): leading and trailing whitespace removed
Strip(s) ==
    LET a == FirstIdx(s, Range(s) \ {" "})
        b == LastIdxNotIn(s, {" "})
    IN  IF b = 0 THEN <<>> ELSE SubSeq(s, a, b)

\* RStripSlash with a fault seeded, for C18: the text is kept as it is
RStripSlash_Keeps(s) == s

\* str.rstrip("/"): trailing slashes removed
RStripSlash(s) == SubSeq(s, 1, LastIdxNotIn(s, {"/"}))

StartsWith(s, p) == Len(s) >= Len(p) /\ SubSeq(s, 1, Len(p)) = p

\* str.lower() on the tokens the model uses
LowerTok(t) ==
    CASE t = "Word" -> "word"
      [] t = "PAGE" -> "page"
      [] t = "Type" -> "type"
      [] OTHER -> t

Lower(s) == [i \in 1..Len(s) |-> LowerTok(s[i])]

\* str.split(sep) for a one-token separator
RECURSIVE Split(_, _)
Split(s, sep) ==
    LET i == FirstIdx(s, {sep})
    IN  IF i > Len(s) THEN <<s>>
        ELSE <<SubSeq(s, 1, i - 1)>> \o Split(SubSeq(s, i + 1, Len(s)), sep)

----------------------------------------------------------------------------
(* MirrorConfig and the built-in mirrors. *)

MirrorConfig(b, p, q) == [base_url |-> b, search_path |-> p, search_params |-> q]

V4X_SEARCH == <<"/", "v4x-search">>
TYPE_COMIC == (<<"type">> :> <<"comic">>)
NO_PARAMS == <<>>

BATO_TO == <<"https", "://", "bato.to">>
BATO_SI == <<"https", "://", "bato.si">>
BATO_ING == <<"https", "://", "bato.ing">>

\* DEFAULT_MIRRORS as the module defines it, before anything mutates its dicts
BUILTIN_MIRRORS ==
    << MirrorConfig(BATO_TO, V4X_SEARCH, TYPE_COMIC),
       MirrorConfig(BATO_SI, V4X_SEARCH, TYPE_COMIC),
       MirrorConfig(BATO_ING, V4X_SEARCH, TYPE_COMIC) >>

\* An element of _mirrors: the dict's content, and obj, the identity of the dict:
\* obj = i > 0 when the element IS the dict DEFAULT_MIRRORS[i] (list() copies the
\* list, not the dicts), obj = 0 for a dict the manager built itself.
Entry(cfg, o) ==
    [base_url |-> cfg.base_url, search_path |-> cfg.search_path,
     search_params |-> cfg.search_params, obj |-> o]

Cfg(e) == MirrorConfig(e.base_url, e.search_path, e.search_params)

\* the records of a list as values, without the dicts' identities
Records(ms) == [i \in 1..Len(ms) |-> Cfg(ms[i])]

\* list(DEFAULT_MIRRORS)
ListOfDefaults(dm) == [i \in 1..Len(dm) |-> Entry(dm[i], i)]

----------------------------------------------------------------------------
(* parse_search_url *)

NONE == [none |-> TRUE]

\* EXCLUDED_PARAMS with a fault seeded, for C32: "page" is missing
EXCLUDED_PARAMS_WithoutPage ==
    {<<"word">>, <<"q">>, <<"query">>, <<"search">>, <<"keyword">>}

EXCLUDED_PARAMS ==
    {<<"word">>, <<"page">>, <<"q">>, <<"query">>, <<"search">>, <<"keyword">>}

\* urllib.parse.parse_qs(query) as the list of (name, value) pairs it collects, in
\* order: fields are separated by "&", a field without "=" or with an empty value
\* is dropped (keep_blank_values is off), the name ends at the first "=".
ParseQsl(query) ==
    LET fields == Split(query, "&")
        Good(f) == FirstIdx(f, {"="}) < Len(f)
        Pair(f) == LET i == FirstIdx(f, {"="})
                   IN  [name |-> SubSeq(f, 1, i - 1), value |-> SubSeq(f, i + 1, Len(f))]
    IN  [k \in 1..Len(SelectSeq(fields, Good)) |-> Pair(SelectSeq(fields, Good)[k])]

\* SearchParams with a fault seeded, for C33: a repeated key keeps the value of
\* its last occurrence
SearchParams_LastValue(query) ==
    LET pairs == ParseQsl(query)
        keys == {pairs[k].name : k \in 1..Len(pairs)}
        kept == {n \in keys : Lower(n) \notin EXCLUDED_PARAMS}
        Last(n) == CHOOSE k \in 1..Len(pairs) :
                       /\ pairs[k].name = n
                       /\ \A j \in (k + 1)..Len(pairs) : pairs[j].name # n
    IN  [n \in kept |-> pairs[Last(n)].value]

\* the search_params dict built by the loop over parse_qs(query).items(): a key
\* is kept unless its lowercase form is excluded, with values[0]
SearchParams(query) ==
    LET pairs == ParseQsl(query)
        keys == {pairs[k].name : k \in 1..Len(pairs)}
        kept == {n \in keys : Lower(n) \notin EXCLUDED_PARAMS}
        First(n) == CHOOSE k \in 1..Len(pairs) :
                        /\ pairs[k].name = n
                        /\ \A j \in 1..(k - 1) : pairs[j].name # n
    IN  [n \in kept |-> pairs[First(n)].value]

\* urlparse(url) for a url that starts with http:// or https://
UrlParse(url) ==
    LET rest == SubSeq(url, 3, Len(url))
        nEnd == FirstIdx(rest, {"/", "?", "#"})
        r2 == SubSeq(rest, nEnd, Len(rest))
        pEnd == FirstIdx(r2, {"?", "#"})
        r3 == SubSeq(r2, pEnd, Len(r2))
        q == IF r3 # <<>> /\ r3[1] = "?" THEN Tail(r3) ELSE <<>>
    IN  [scheme |-> url[1],
         netloc |-> SubSeq(rest, 1, nEnd - 1),
         path |-> SubSeq(r2, 1, pEnd - 1),
         query |-> SubSeq(q, 1, FirstIdx(q, {"#"}) - 1)]

\* urlparse raises ValueError on an unbalanced bracket in the netloc
UrlParseRaises(url) ==
    LET n == UrlParse(url).netloc
    IN  ("[" \in Range(n)) # ("]" \in Range(n))

\* parse_search_url with a fault seeded, for C31: the check of lines 77-78 for an
\* empty netloc is missing
parse_search_url_AcceptsHostless(raw) ==
    LET stripped == Strip(raw)
        url == IF StartsWith(stripped, <<"http", "://">>) \/ StartsWith(stripped, <<"https", "://">>)
               THEN stripped
               ELSE <<"https", "://">> \o stripped
        parsed == UrlParse(url)
    IN  IF stripped = <<>> THEN NONE
        ELSE IF UrlParseRaises(url) THEN NONE
        ELSE MirrorConfig(<<parsed.scheme, "://">> \o parsed.netloc,
                          IF parsed.path = <<>> THEN <<"/">> ELSE parsed.path,
                          SearchParams(parsed.query))

parse_search_url(raw) ==
    LET stripped == Strip(raw)
        url == IF StartsWith(stripped, <<"http", "://">>) \/ StartsWith(stripped, <<"https", "://">>)
               THEN stripped
               ELSE <<"https", "://">> \o stripped
        parsed == UrlParse(url)
    IN  IF stripped = <<>> THEN NONE
        ELSE IF UrlParseRaises(url) THEN NONE
        ELSE IF parsed.netloc = <<>> THEN NONE
        ELSE MirrorConfig(<<parsed.scheme, "://">> \o parsed.netloc,
                          IF parsed.path = <<>> THEN <<"/">> ELSE parsed.path,
                          SearchParams(parsed.query))

----------------------------------------------------------------------------
(* The persisted file.  A file is absent, or holds text that is not JSON    *)
(* ("garbage"), or JSON that is not an object ("nonobject"), or an object   *)
(* with an optional "mirrors" value and an optional "current_index" value.  *)

JMissing == [t |-> "missing", v |-> <<>>]
JList(es) == [t |-> "list", v |-> es]
JNotList == [t |-> "notlist", v |-> <<>>]
JNoInt == [t |-> "missing", v |-> 0]
JInt(n) == [t |-> "int", v |-> n]
JNonInt == [t |-> "nonint", v |-> 0]

\* entries of the "mirrors" list: an object (with or without the keys), a bare
\* string, or any other JSON value
JDict(hasBase, b, hasPath, p, params) ==
    [t |-> "dict", has_base |-> hasBase, base_url |-> b,
     has_path |-> hasPath, search_path |-> p, search_params |-> params]
JParams(q) == [t |-> "dict", v |-> q]
JNoParams == [t |-> "missing", v |-> <<>>]
JBadParams == [t |-> "bad", v |-> <<>>]
JStr(s) ==
    [t |-> "str", has_base |-> FALSE, base_url |-> s,
     has_path |-> FALSE, search_path |-> <<>>, search_params |-> JNoParams]
JOther ==
    [t |-> "other", has_base |-> FALSE, base_url |-> <<>>,
     has_path |-> FALSE, search_path |-> <<>>, search_params |-> JNoParams]

FileAbsent == [kind |-> "absent", mirrors |-> JMissing, current_index |-> JNoInt]
FileGarbage == [kind |-> "garbage", mirrors |-> JMissing, current_index |-> JNoInt]
FileNonObject == [kind |-> "nonobject", mirrors |-> JMissing, current_index |-> JNoInt]
FileObject(ms, ci) == [kind |-> "object", mirrors |-> ms, current_index |-> ci]

\* DumpMirror with a fault seeded, for C15: search_params is not written
DumpMirror_WithoutParams(e) == JDict(TRUE, e.base_url, TRUE, e.search_path, JNoParams)

\* json.dumps of one MirrorConfig
DumpMirror(e) == JDict(TRUE, e.base_url, TRUE, e.search_path, JParams(e.search_params))

\* the text _save_config writes
Payload(ms, ci) == FileObject(JList([i \in 1..Len(ms) |-> DumpMirror(ms[i])]), JInt(ci))

\* the MirrorConfig _load_config builds from one usable entry
LoadEntry(m) ==
    IF m.t = "str"
    THEN Entry(MirrorConfig(RStripSlash(m.base_url), V4X_SEARCH, TYPE_COMIC), 0)
    ELSE Entry(MirrorConfig(RStripSlash(m.base_url),
                            IF m.has_path THEN m.search_path ELSE V4X_SEARCH,
                            IF m.search_params.t = "dict" THEN m.search_params.v ELSE NO_PARAMS), 0)

Usable(m) == (m.t = "dict" /\ m.has_base) \/ m.t = "str"

\* dict(m.get("search_params", {})) raises on a value that is no mapping
EntryRaises(m) == m.t = "dict" /\ m.has_base /\ m.search_params.t = "bad"

\* _load_config, as called from __init__ (where _mirrors = [] and
\* _current_index = 0); raised names the exception that leaves it, if any
load_config(f, dm) ==
    LET loaded == [k \in 1..Len(SelectSeq(f.mirrors.v, Usable)) |->
                       LoadEntry(SelectSeq(f.mirrors.v, Usable)[k])]
        ms == IF f.mirrors.t = "list" /\ f.mirrors.v # <<>> /\ loaded # <<>>
              THEN loaded
              ELSE ListOfDefaults(dm)
        stored == IF f.current_index.t = "int" THEN f.current_index.v ELSE 0
    IN  IF f.kind = "absent"
        THEN [raised |-> "", mirrors |-> ListOfDefaults(dm), current_index |-> 0]
        ELSE IF f.kind = "garbage"
        THEN [raised |-> "", mirrors |-> ListOfDefaults(dm), current_index |-> 0]
        ELSE IF f.kind = "nonobject"
        THEN [raised |-> "AttributeError", mirrors |-> <<>>, current_index |-> 0]
        ELSE IF f.mirrors.t = "list" /\ \E k \in 1..Len(f.mirrors.v) : EntryRaises(f.mirrors.v[k])
        THEN [raised |-> "TypeError", mirrors |-> <<>>, current_index |-> 0]
        ELSE IF f.current_index.t = "nonint"
        THEN [raised |-> "TypeError", mirrors |-> ms, current_index |-> 0]
        ELSE [raised |-> "", mirrors |-> ms,
              current_index |-> Min(stored, Len(ms) - 1)]

----------------------------------------------------------------------------
(* _save_config and the disk. *)

\* what every _save_config of one run meets: "ok", the write succeeds;
\* "no_dir", mkdir raises and the OSError leaves _save_config (mkdir is outside
\* its try); "read_only", write_text raises (caught, the file stays as it was)
DiskModes == {"ok", "no_dir", "read_only"}

\* save_config with a fault seeded, for C19: the index written is the one the
\* manager held when the operation began
save_config_BeforeIndex(ms, ci, f) == IF disk = "ok" THEN Payload(ms, current_index) ELSE f

\* the file after _save_config
save_config(ms, ci, f) == IF disk = "ok" THEN Payload(ms, ci) ELSE f

SaveRaises == disk = "no_dir"

----------------------------------------------------------------------------
(* Return values. *)

Ret(op, ok, msg) == [op |-> op, ok |-> ok, msg |-> msg, exc |-> ""]
Raised(op, exc) == [op |-> op, ok |-> FALSE, msg |-> "", exc |-> exc]
NoRet == Ret("", TRUE, "")

\* the outcome of an operation that ends with _save_config
AfterSave(op, ok, msg) == IF SaveRaises THEN Raised(op, "OSError") ELSE Ret(op, ok, msg)

NoCycle == [active |-> FALSE, start |-> 0, returned |-> <<>>, ended |-> FALSE]

----------------------------------------------------------------------------
(* List helpers (0-based indices, as in the source). *)

\* list.pop(i)
Pop(ms, i) == SubSeq(ms, 1, i) \o SubSeq(ms, i + 2, Len(ms))

\* Insert with a fault seeded, for C12: the element is appended
Insert_AtEnd(ms, i, x) == Append(ms, x)

\* list.insert(i, x) for 0 <= i <= len
Insert(ms, i, x) == SubSeq(ms, 1, i) \o <<x>> \o SubSeq(ms, i + 1, Len(ms))

\* ms[i] as Python indexes a list: negative indices count from the end
InIndexRange(ms, i) == -Len(ms) <= i /\ i < Len(ms)
Position(ms, i) == IF i >= 0 THEN i ELSE Len(ms) + i
PyIndex(ms, i) == ms[Position(ms, i) + 1]

----------------------------------------------------------------------------
(* The current mirror. *)

\* the current_mirror property raises IndexError when the index is outside the
\* list (a negative index counts from the end of a Python list)
CurrentMirrorRaises(ms, ci) == ms # <<>> /\ ~InIndexRange(ms, ci)

current_mirror(ms, ci, dm) == IF ms = <<>> THEN Entry(dm[1], 1) ELSE PyIndex(ms, ci)

current_base_url(ms, ci, dm) == current_mirror(ms, ci, dm).base_url

----------------------------------------------------------------------------
(* The manager's operations.  Each is the whole method; call and cycle are    *)
(* left to the action that uses it.                                         *)

\* the mirrors list with the dict at position k (1-based) given a new search
\* path and params: the assignments of lines 252-253 write into the dict itself
UpdateInPlace(ms, k, cfg) ==
    [ms EXCEPT ![k].search_path = cfg.search_path,
               ![k].search_params = cfg.search_params]

\* DEFAULT_MIRRORS after those assignments: the dict may be one of its own
DefaultsAfterUpdate(dm, e, cfg) ==
    IF e.obj > 0
    THEN [dm EXCEPT ![e.obj].search_path = cfg.search_path,
                    ![e.obj].search_params = cfg.search_params]
    ELSE dm

\* position (1-based) of the first record with this base_url, 0 when there is none
FindBase(ms, b) ==
    IF \E k \in 1..Len(ms) : ms[k].base_url = b
    THEN CHOOSE k \in 1..Len(ms) :
             ms[k].base_url = b /\ \A j \in 1..(k - 1) : ms[j].base_url # b
    ELSE 0

add_mirror_from_url(url) ==
    LET config == parse_search_url(url)
        k == FindBase(mirrors, config.base_url)
    IN  /\ alive
        /\ UNCHANGED <<alive, disk, current_index>>
        /\ IF config = NONE
           THEN /\ ret' = Ret("add_mirror_from_url", FALSE,
                              "Invalid URL format. Please paste a search URL from your browser.")
                /\ UNCHANGED <<DEFAULT_MIRRORS, mirrors, file>>
           ELSE /\ IF k > 0
                   THEN /\ mirrors' = UpdateInPlace(mirrors, k, config)
                        /\ DEFAULT_MIRRORS' = DefaultsAfterUpdate(DEFAULT_MIRRORS, mirrors[k], config)
                        /\ ret' = AfterSave("add_mirror_from_url", TRUE, "Updated")
                   ELSE /\ Len(mirrors) < MaxMirrors
                        /\ mirrors' = Append(mirrors, Entry(config, 0))
                        /\ UNCHANGED DEFAULT_MIRRORS
                        /\ ret' = AfterSave("add_mirror_from_url", TRUE, "Added mirror")
                /\ file' = save_config(mirrors', current_index, file)

\* current_index after remove_mirror popped position index of a list that now
\* has n records
IndexAfterRemove(ci, index, n) ==
    IF ci >= n THEN n - 1
    ELSE IF index < ci THEN ci - 1
    ELSE ci

\* RemoveRefusal with a fault seeded, for C10: the check for the last mirror
\* is missing
RemoveRefusal_WithoutLastCheck(ms, index) ==
    IF ~(0 <= index /\ index < Len(ms)) THEN "Invalid mirror index" ELSE ""

\* the two early returns of remove_mirror: "" when the removal goes ahead
RemoveRefusal(ms, index) ==
    IF ~(0 <= index /\ index < Len(ms)) THEN "Invalid mirror index"
    ELSE IF Len(ms) <= 1 THEN "Cannot remove the last mirror"
    ELSE ""

remove_mirror(index) ==
    /\ alive
    /\ UNCHANGED <<DEFAULT_MIRRORS, alive, disk>>
    /\ IF RemoveRefusal(mirrors, index) # ""
       THEN /\ ret' = Ret("remove_mirror", FALSE, RemoveRefusal(mirrors, index))
            /\ UNCHANGED <<mirrors, current_index, file>>
       ELSE /\ mirrors' = Pop(mirrors, index)
            /\ current_index' = IndexAfterRemove(current_index, index, Len(mirrors'))
            /\ file' = save_config(mirrors', current_index', file)
            /\ ret' = AfterSave("remove_mirror", TRUE, "Removed mirror")

move_mirror(from_index, to_index) ==
    /\ alive
    /\ UNCHANGED <<DEFAULT_MIRRORS, alive, disk, current_index>>
    /\ IF \/ ~(0 <= from_index /\ from_index < Len(mirrors))
          \/ ~(0 <= to_index /\ to_index < Len(mirrors))
       THEN /\ ret' = Ret("move_mirror", FALSE, "")
            /\ UNCHANGED <<mirrors, file>>
       ELSE IF from_index = to_index
       THEN /\ ret' = Ret("move_mirror", TRUE, "")
            /\ UNCHANGED <<mirrors, file>>
       ELSE /\ mirrors' = Insert(Pop(mirrors, from_index), to_index, mirrors[from_index + 1])
            /\ file' = save_config(mirrors', current_index, file)
            /\ ret' = AfterSave("move_mirror", TRUE, "")

\* next_index with a fault seeded, for C35: after the last mirror comes the first
next_index_Wraps(ms, ci) ==
    IF Len(ms) <= 1 THEN [none |-> TRUE, index |-> ci]
    ELSE [none |-> FALSE, index |-> (ci + 1) % Len(ms)]

\* next_index with a fault seeded, for C36: the mirror before is the next one
next_index_Backwards(ms, ci) ==
    IF Len(ms) <= 1 \/ ci <= 0 THEN [none |-> TRUE, index |-> ci]
    ELSE [none |-> FALSE, index |-> ci - 1]

\* next_index with a fault seeded, for C38: the mirror after the next one is taken
next_index_SkipsOne(ms, ci) ==
    IF Len(ms) <= 1 \/ ci + 2 >= Len(ms) THEN [none |-> TRUE, index |-> ci]
    ELSE [none |-> FALSE, index |-> ci + 2]

\* what next_mirror decides: none when it returns None, else the index it moves to
next_index(ms, ci) ==
    IF Len(ms) <= 1 THEN [none |-> TRUE, index |-> ci]
    ELSE IF (ci + 1) % Len(ms) = 0 THEN [none |-> TRUE, index |-> ci]
    ELSE [none |-> FALSE, index |-> (ci + 1) % Len(ms)]

next_mirror ==
    LET r == next_index(mirrors, current_index)
    IN  /\ alive
        /\ UNCHANGED <<DEFAULT_MIRRORS, alive, disk, mirrors>>
        /\ IF r.none
           THEN /\ ret' = Ret("next_mirror", FALSE, "None")
                /\ UNCHANGED <<current_index, file>>
           ELSE /\ current_index' = r.index
                /\ file' = save_config(mirrors, current_index', file)
                /\ ret' = AfterSave("next_mirror", TRUE, "")

\* index 0 is the primary mirror
primary_index == 0

reset_to_primary ==
    /\ alive
    /\ UNCHANGED <<DEFAULT_MIRRORS, alive, disk, mirrors>>
    /\ IF current_index # primary_index
       THEN /\ current_index' = primary_index
            /\ file' = save_config(mirrors, current_index', file)
            /\ ret' = AfterSave("reset_to_primary", TRUE, "")
       ELSE /\ ret' = Ret("reset_to_primary", TRUE, "")
            /\ UNCHANGED <<current_index, file>>

\* reset_to_defaults with a fault seeded, for C14: the defaults are added to
\* the list and do not replace it
reset_to_defaults_Extends ==
    /\ alive
    /\ UNCHANGED <<DEFAULT_MIRRORS, alive, disk>>
    /\ mirrors' = mirrors \o ListOfDefaults(DEFAULT_MIRRORS)
    /\ current_index' = primary_index
    /\ file' = save_config(mirrors', current_index', file)
    /\ ret' = AfterSave("reset_to_defaults", TRUE,
                        IF ret.op = "reset_to_defaults" THEN "again" ELSE "")

\* the method returns None; msg notes a call that directly follows another
\* reset_to_defaults()
reset_to_defaults ==
    /\ alive
    /\ UNCHANGED <<DEFAULT_MIRRORS, alive, disk>>
    /\ mirrors' = ListOfDefaults(DEFAULT_MIRRORS)
    /\ current_index' = primary_index
    /\ file' = save_config(mirrors', current_index', file)
    /\ ret' = AfterSave("reset_to_defaults", TRUE,
                        IF ret.op = "reset_to_defaults" THEN "again" ELSE "")

----------------------------------------------------------------------------
(* Inputs. *)

M_X == <<"https", "://", "m.x">>
ALT_SEARCH == <<"/", "search">>

\* a list written by an older version: a bare string with a trailing slash, a
\* value that is no mirror, and an object without search_path and search_params
LegacyList ==
    JList(<<JStr(M_X \o <<"/">>), JOther, JDict(TRUE, BATO_SI, FALSE, <<>>, JNoParams)>>)

\* a list naming one origin twice
TwiceList == JList(<<JStr(M_X), JStr(M_X \o <<"/">>)>>)

\* a list with an entry whose search_params is no mapping
BadParamsList == JList(<<JDict(TRUE, M_X, TRUE, V4X_SEARCH, JBadParams)>>)

\* what the persisted file holds when the manager is constructed
FileContents ==
    { FileAbsent, FileGarbage, FileNonObject,
      FileObject(JMissing, JNoInt),
      FileObject(JNotList, JInt(7)),
      FileObject(JList(<<>>), JInt(1)),
      FileObject(JList(<<JOther>>), JInt(-2)),
      FileObject(LegacyList, JNoInt),
      FileObject(LegacyList, JInt(1)),
      FileObject(LegacyList, JInt(7)),
      FileObject(LegacyList, JInt(-2)),
      FileObject(LegacyList, JNonInt),
      FileObject(TwiceList, JNoInt),
      FileObject(TwiceList, JInt(1)),
      FileObject(BadParamsList, JNoInt) }

\* the URLs add_mirror_from_url is called with
AddUrls ==
    { <<"bato.to", "/", "search", "?", "word", "=", "test">>,
      <<" ", "https", "://", "m.x", "/", "v4x-search", "?", "type", "=", "comic",
        "&", "page", "=", "2", " ">>,
      <<" ">>,
      <<>>,
      <<"https", "://", "/", "search">> }

\* the indices remove_mirror and move_mirror are called with
IndexInputs == -1..Len(mirrors)

\* the index pairs move_mirror is called with: every pair of positions, and
\* pairs with one index or both just outside the list
MoveInputs ==
    LET n == Len(mirrors)
    IN  ((0..(n - 1)) \X (0..(n - 1)))
            \cup {<<-1, 0>>, <<0, -1>>, <<n, 0>>, <<0, n>>, <<-1, n>>}

\* the threads that call into the service; the second one moves only where
\* calls run concurrently
Callers == {1, 2}

\* A fallback call of the service: pc, the place in the method; the method's
\* locals start_mirror, tried_mirrors, current_base and last_error (the number
\* of the attempt whose exception it holds, 0 for None); and what an observer
\* records: pos, the list position current_base was read from; attempts, one
\* entry per mirror tried; result ("" while running, "ok",
\* or the name of the exception that reached the caller), error (the attempt
\* whose exception reached the caller, 0 when it is none of them), payload (the
\* mirror whose response was returned) and prev, how the caller's previous call
\* ended.  comic_result is the local of _get_series_info_graphql that holds the
\* last metadata response received and the mirror it came from; body is what
\* the call returned beside the mirror: the items of a search page, or the
\* metadata and the chapter list of a series.  next_index is the local of
\* next_mirror() while the call is inside it; seen holds the base_urls the list
\* held whenever the call looked at it.
NoPrev == [result |-> "", payload |-> <<>>, attempts |-> <<>>]

IdleCall ==
    [pc |-> "idle", kind |-> "", start_mirror |-> <<>>, tried_mirrors |-> <<>>,
     current_base |-> <<>>, pos |-> 0, last_error |-> 0, attempts |-> <<>>, result |-> "",
     error |-> 0, payload |-> <<>>, prev |-> NoPrev, comic_result |-> <<>>, body |-> <<>>,
     next_index |-> 0, seen |-> {}]

\* A BatoService operation (search_manga, get_series_info): pc, the place in the
\* method; op and input, the method and its argument; the locals of search_manga
\* normalized_query, max_pages, page and results; the rate limiter's
\* _last_request_time, 0 until the first request and 1 once it holds a time, with
\* elapsed, the clock ticks that time.time() has moved on since that time (not
\* counted beyond rate_limit_delay, from where on the code does the same); and
\* what an observer records: acquired, one entry per _apply_rate_limit() of the
\* last attempt (first: _last_request_time was unset; slept: the ticks it
\* slept; apart: the ticks from the end of the acquire before to its own end); pages, the page numbers
\* requested so far; listed, every item with a urlPath that the pages of the
\* search listed, as the hit it would make, in the order listed; result ("" while
\* running, "ok", or the name of the exception that reached the caller) and
\* value, what was returned.
IdleService ==
    [pc |-> "idle", op |-> "", input |-> <<>>, normalized_query |-> <<>>, max_pages |-> 0,
     page |-> 0, results |-> <<>>, pages |-> <<>>, listed |-> <<>>, result |-> "",
     value |-> <<>>, last_request_time |-> 0, elapsed |-> 0, acquired |-> <<>>]

----------------------------------------------------------------------------
(* Construction: BatoMirrorManager() on a given persisted file. *)

Constructed(f, d) ==
    LET l == load_config(f, BUILTIN_MIRRORS)
    IN  /\ DEFAULT_MIRRORS = BUILTIN_MIRRORS
        /\ file = f
        /\ alive = (l.raised = "")
        /\ mirrors = l.mirrors
        /\ current_index = l.current_index
        /\ disk = d
        /\ ret = IF l.raised # "" THEN Raised("__init__", l.raised) ELSE NoRet
        /\ cycle = NoCycle
        /\ edited = FALSE
        /\ call = [c \in Callers |-> IdleCall]
        /\ svc = [c \in Callers |-> IdleService]

\* The file and the disk a run starts with.  mkdir fails only where the
\* configuration directory does not exist, so there is no file there either; a
\* read-only location holds no file or a file of an older version.
StartStates ==
    {<<f, "ok">> : f \in FileContents}
        \cup {<<FileAbsent, "no_dir">>}
        \cup {<<f, "read_only">> : f \in {FileAbsent, FileObject(LegacyList, JInt(1))}}

Init == \E st \in StartStates : Constructed(st[1], st[2])

----------------------------------------------------------------------------
(* The manager driven by the settings tab and by direct callers. *)

\* an operation called from outside the service: no fallback call moves
Direct(op) == op /\ cycle' = NoCycle /\ edited' = TRUE /\ UNCHANGED <<call, svc>>

AddMirror == \E url \in AddUrls : Direct(add_mirror_from_url(url))
RemoveMirror == \E i \in IndexInputs : Direct(remove_mirror(i))
MoveMirror == \E p \in MoveInputs : Direct(move_mirror(p[1], p[2]))

\* The history of a run of consecutive direct next_mirror() calls: the index
\* the run started from, the indices of the mirrors returned so far, and whether
\* the last call returned None.  A call after a None starts a new run.
CycleAfter(cy, ci, r, ciAfter) ==
    LET run == IF cy.active /\ ~cy.ended
               THEN cy
               ELSE [active |-> TRUE, start |-> ci, returned |-> <<>>, ended |-> FALSE]
    IN  IF r.exc # "" THEN NoCycle
        ELSE IF ~r.ok THEN [run EXCEPT !.ended = TRUE]
        ELSE [run EXCEPT !.returned = Append(run.returned, ciAfter)]

NextMirror ==
    /\ next_mirror
    /\ cycle' = CycleAfter(cycle, current_index, ret', current_index')
    /\ edited' = TRUE
    /\ UNCHANGED <<call, svc>>
ResetToPrimary == Direct(reset_to_primary)
ResetToDefaults == Direct(reset_to_defaults)

Next ==
    \/ AddMirror
    \/ RemoveMirror
    \/ MoveMirror
    \/ NextMirror
    \/ ResetToPrimary
    \/ ResetToDefaults

Spec == Init /\ [][Next]_vars

\* the operations the settings tab offers (ui/tabs/settings_tab.py)
NextSettings ==
    \/ AddMirror
    \/ RemoveMirror
    \/ MoveMirror
    \/ ResetToDefaults

SpecSettings == Init /\ [][NextSettings]_vars

----------------------------------------------------------------------------
(* The application is closed and started again on the same configuration    *)
(* directory: get_mirror_manager() constructs one manager per process.      *)

Restart ==
    LET l == load_config(file, BUILTIN_MIRRORS)
    IN  /\ DEFAULT_MIRRORS' = BUILTIN_MIRRORS
        /\ alive' = (l.raised = "")
        /\ mirrors' = l.mirrors
        /\ current_index' = l.current_index
        /\ ret' = IF l.raised # "" THEN Raised("__init__", l.raised) ELSE NoRet
        /\ cycle' = NoCycle
        /\ call' = [c \in Callers |-> IdleCall]
        /\ svc' = [c \in Callers |-> IdleService]
        /\ UNCHANGED <<file, disk, edited>>

NextRestart ==
    \/ Next
    \/ Restart

SpecRestart == Init /\ [][NextRestart]_vars

----------------------------------------------------------------------------
(* The fallback loop shared by _request_with_fallback, _search_with_fallback *)
(* and _get_series_info_graphql.                                            *)

CallKinds == {"request", "search", "series"}

\* What one attempt on a mirror meets.  "ok": the response is usable.  "fail": a
\* RequestException of the transport (connection error, timeout, HTTP error
\* status).  "errors": the body carries an errors key.  "not_json": the body is
\* no JSON, response.json() raises requests' JSONDecodeError, which is a
\* RequestException.  "chapters_fail": in a series lookup the metadata request
\* was answered and the chapter-list request met a RequestException.
\* "malformed": the body parses but a .get() chain meets a value that is no
\* dict, which raises AttributeError; _request_with_fallback reads only
\* response.text and cannot meet it.
Outcomes(kind) ==
    CASE kind = "search" -> {"ok", "fail", "errors", "not_json", "malformed"}
      [] kind = "series" -> {"ok", "fail", "errors", "chapters_fail", "malformed"}
      [] OTHER -> {"ok", "fail"}

\* the outcomes that raise a RequestException inside the try block
Failures == {"fail", "errors", "not_json", "chapters_fail"}

\* how many HTTP requests an attempt sent, each one after _apply_rate_limit():
\* the series lookup sends its second request only after the first was answered
\* without an errors key
Requests(kind, outcome) ==
    IF kind = "series" /\ outcome \in {"ok", "chapters_fail", "malformed"} THEN 2 ELSE 1

\* Items of a search page, as data.get("urlPath", ""), data.get("name",
\* "Unknown") and data.get("slug", "") read them: an empty urlPath stands for a
\* missing one as well.
Item(p, n, s) == [urlPath |-> p, name |-> n, slug |-> s]

TITLE_ONE == <<"/", "title", "/", "1-one">>
TITLE_TWO == <<"/", "title", "/", "2-two">>

PAGE_WITH_REPEAT ==
    << Item(TITLE_ONE, "One", "one"),
       Item(<<>>, "No Path", "none"),
       Item(TITLE_ONE, "One Again", "one-again"),
       Item(TITLE_TWO, "Two", "two") >>

PAGE_ACROSS ==
    << Item(TITLE_TWO, "Two Later", "two-later"),
       Item(BATO_SI \o TITLE_ONE, "One Absolute", "one-abs") >>

\* the items lists a successful search request returns
ItemLists == {<<>>, PAGE_WITH_REPEAT, PAGE_ACROSS}

\* Metadata of a series and items of a chapter list, as data.get("name",
\* "Unknown Title"), data.get("authors"), data.get("genres"), the code of
\* data.get("summary"), ch_data.get("urlPath", "") and ch_data.get("dname",
\* "Unknown") read them: an empty list or text stands for a missing key as well.
Comic(n, a, g, s) == [name |-> n, authors |-> a, genres |-> g, summary |-> s]
Chapter(p, d) == [urlPath |-> p, dname |-> d]

CHAPTER_ONE == <<"/", "title", "/", "1-one", "/", "1-ch_1">>
CHAPTER_TWO == <<"/", "title", "/", "1-one", "/", "2-ch_2">>

\* newest first, as the test of get_series_info feeds them
NEWEST_FIRST ==
    << Chapter(CHAPTER_TWO, "Ch 2"), Chapter(<<>>, "No Path"), Chapter(CHAPTER_ONE, "Ch 1") >>

\* the metadata and chapter lists a successful series lookup receives
SeriesBodies ==
    { [comic |-> Comic("One", <<"Author">>, <<"Action", "Drama">>, "About One"), chapters |-> NEWEST_FIRST],
      [comic |-> Comic("Two", <<>>, <<"Action">>, ""), chapters |-> <<Chapter(CHAPTER_ONE, "Ch 1")>>],
      [comic |-> Comic("Three", <<>>, <<>>, ""), chapters |-> <<>>] }

\* the metadata a mirror sent before its chapter-list request failed
ABANDONED == [comic |-> Comic("Abandoned", <<"Nobody">>, <<>>, ""), chapters |-> <<>>]

\* the parts of the responses an attempt goes on to use
Bodies(kind, outcome) ==
    CASE kind = "search" /\ outcome = "ok" -> ItemLists
      [] kind = "series" /\ outcome = "ok" -> SeriesBodies
      [] kind = "series" /\ outcome = "chapters_fail" -> {ABANDONED}
      [] OTHER -> {<<>>}

\* urljoin(base, ref) for a base that is an origin: an absolute ref replaces the
\* base, a ref that starts with "/" is put after the origin
UrlJoin(base, ref) ==
    IF StartsWith(ref, <<"http", "://">>) \/ StartsWith(ref, <<"https", "://">>) THEN ref
    ELSE IF ref = <<>> THEN base
    ELSE IF ref[1] = "/" THEN base \o ref
    ELSE base \o <<"/">> \o ref

Running(c) == call[c].pc \notin {"idle", "done"}

Ended(cl, res) == [cl EXCEPT !.pc = "done", !.result = res]

\* lines 71-73, 133-135, 325-327: the locals are initialised; before is the
\* call whose end the observer keeps in prev
Begun(before, kind) ==
    LET fresh == [IdleCall EXCEPT
                     !.kind = kind,
                     !.seen = {mirrors[k].base_url : k \in 1..Len(mirrors)},
                     !.prev = [result |-> before.result, payload |-> before.payload,
                               attempts |-> before.attempts]]
    IN  IF CurrentMirrorRaises(mirrors, current_index)
        THEN Ended(fresh, "IndexError")
        ELSE [fresh EXCEPT
                 !.pc = "loop",
                 !.start_mirror = current_base_url(mirrors, current_index, DEFAULT_MIRRORS)]

Begin(c, kind) ==
    /\ alive
    /\ ~Running(c)
    /\ call' = [call EXCEPT ![c] = Begun(call[c], kind)]
    /\ UNCHANGED <<DEFAULT_MIRRORS, mirrors, current_index, file, alive, disk, ret, cycle, edited>>

\* the fallback call a service method makes: the frame of the call before is gone
BeginWithin(c, kind) ==
    /\ call' = [call EXCEPT ![c] = Begun(IdleCall, kind)]
    /\ UNCHANGED <<DEFAULT_MIRRORS, mirrors, current_index, file, alive, disk, ret, cycle, edited>>

\* LoopHead with a fault seeded, for C37: the check of current_base against
\* tried_mirrors is missing
LoopHead_WithoutTriedCheck(c) ==
    /\ call[c].pc = "loop"
    /\ LET cl == call[c]
           base == current_base_url(mirrors, current_index, DEFAULT_MIRRORS)
       IN  call' = [call EXCEPT ![c] =
                IF CurrentMirrorRaises(mirrors, current_index)
                THEN Ended(cl, "IndexError")
                ELSE [cl EXCEPT !.pc = "attempt",
                                !.current_base = base,
                                !.pos = Position(mirrors, current_index),
                                !.tried_mirrors = Append(cl.tried_mirrors, base),
                                !.seen = cl.seen \cup
                                         {mirrors[k].base_url : k \in 1..Len(mirrors)}]]
    /\ UNCHANGED <<DEFAULT_MIRRORS, mirrors, current_index, file, alive, disk, ret, cycle, edited, svc>>

\* lines 77-81, 155-161, 355-360: the top of the while loop
LoopHead(c) ==
    /\ call[c].pc = "loop"
    /\ LET cl == call[c]
           base == current_base_url(mirrors, current_index, DEFAULT_MIRRORS)
       IN  call' = [call EXCEPT ![c] =
                IF CurrentMirrorRaises(mirrors, current_index)
                THEN Ended(cl, "IndexError")
                ELSE IF base \in Range(cl.tried_mirrors)
                THEN [cl EXCEPT !.pc = "after_loop"]
                ELSE [cl EXCEPT !.pc = "attempt",
                                !.current_base = base,
                                !.pos = Position(mirrors, current_index),
                                !.tried_mirrors = Append(cl.tried_mirrors, base),
                                !.seen = cl.seen \cup
                                         {mirrors[k].base_url : k \in 1..Len(mirrors)}]]
    /\ UNCHANGED <<DEFAULT_MIRRORS, mirrors, current_index, file, alive, disk, ret, cycle, edited, svc>>

\* the entry of the attempts log for the attempt just made
Sent(cl, outcome) ==
    Append(cl.attempts,
           [base |-> cl.current_base, index |-> cl.pos, outcome |-> outcome,
            requests |-> Requests(cl.kind, outcome)])

\* line 376: comic_result is assigned when the metadata request was answered
ComicResult(cl, outcome, body) ==
    IF cl.kind = "series" /\ outcome \in {"ok", "chapters_fail"}
    THEN [from |-> cl.current_base, data |-> body.comic]
    ELSE cl.comic_result

\* lines 97, 192-195, 394-400: what is returned beside current_base
Returned(cl, outcome, body) ==
    IF cl.kind = "series"
    THEN [comic |-> ComicResult(cl, outcome, body),
          chapters |-> [from |-> cl.current_base, list |-> body.chapters]]
    ELSE body

\* AttemptResult with a fault seeded, for C5: the mirror reported with the
\* response is start_mirror, not the mirror that answered
AttemptResult_ReportsStartMirror(cl, outcome, body) ==
    CASE outcome = "ok" ->
             [Ended(cl, "ok") EXCEPT !.attempts = Sent(cl, outcome),
                                     !.payload = cl.start_mirror,
                                     !.comic_result = ComicResult(cl, outcome, body),
                                     !.body = Returned(cl, outcome, body)]
      [] outcome \in Failures ->
             [cl EXCEPT !.pc = "failed", !.attempts = Sent(cl, outcome),
                        !.last_error = Len(Sent(cl, outcome)),
                        !.comic_result = ComicResult(cl, outcome, body)]
      [] OTHER ->
             [Ended(cl, "AttributeError") EXCEPT !.attempts = Sent(cl, outcome),
                                                 !.error = Len(Sent(cl, outcome))]

\* AttemptResult with a fault seeded, for C29: a body with an errors key is
\* taken for a usable response
AttemptResult_IgnoresErrorsKey(cl, outcome, body) ==
    CASE outcome \in {"ok", "errors"} ->
             [Ended(cl, "ok") EXCEPT !.attempts = Sent(cl, outcome),
                                     !.payload = cl.current_base,
                                     !.comic_result = ComicResult(cl, outcome, body),
                                     !.body = IF outcome = "ok"
                                              THEN Returned(cl, outcome, body) ELSE <<>>]
      [] outcome \in Failures ->
             [cl EXCEPT !.pc = "failed", !.attempts = Sent(cl, outcome),
                        !.last_error = Len(Sent(cl, outcome)),
                        !.comic_result = ComicResult(cl, outcome, body)]
      [] OTHER ->
             [Ended(cl, "AttributeError") EXCEPT !.attempts = Sent(cl, outcome),
                                                 !.error = Len(Sent(cl, outcome))]

\* AttemptResult with a fault seeded, for C26: the lookup returns when the
\* chapter-list request fails, with the metadata it has
AttemptResult_ReturnsWithoutChapters(cl, outcome, body) ==
    CASE outcome \in {"ok", "chapters_fail"} ->
             [Ended(cl, "ok") EXCEPT !.attempts = Sent(cl, outcome),
                                     !.payload = cl.current_base,
                                     !.comic_result = ComicResult(cl, outcome, body),
                                     !.body = Returned(cl, outcome, body)]
      [] outcome \in Failures ->
             [cl EXCEPT !.pc = "failed", !.attempts = Sent(cl, outcome),
                        !.last_error = Len(Sent(cl, outcome)),
                        !.comic_result = ComicResult(cl, outcome, body)]
      [] OTHER ->
             [Ended(cl, "AttributeError") EXCEPT !.attempts = Sent(cl, outcome),
                                                 !.error = Len(Sent(cl, outcome))]

\* lines 84-97, 176-202, 365-408: what the try block and its except clause, up
\* to the call of next_mirror, make of the call: a usable response is returned
\* with current_base; a RequestException is kept in last_error; any other
\* exception leaves the method
AttemptResult(cl, outcome, body) ==
    CASE outcome = "ok" ->
             [Ended(cl, "ok") EXCEPT !.attempts = Sent(cl, outcome),
                                     !.payload = cl.current_base,
                                     !.comic_result = ComicResult(cl, outcome, body),
                                     !.body = Returned(cl, outcome, body)]
      [] outcome \in Failures ->
             [cl EXCEPT !.pc = "failed", !.attempts = Sent(cl, outcome),
                        !.last_error = Len(Sent(cl, outcome)),
                        !.comic_result = ComicResult(cl, outcome, body)]
      [] OTHER ->
             [Ended(cl, "AttributeError") EXCEPT !.attempts = Sent(cl, outcome),
                                                 !.error = Len(Sent(cl, outcome))]

\* CONFIG.service.rate_limit_delay: 0.5 s, in ticks of the clock (a quarter of a second)
rate_limit_delay == 2

\* apply_rate_limit with a fault seeded, for C34: it never sleeps
apply_rate_limit_NeverSleeps(s) ==
    [s EXCEPT !.last_request_time = 1,
              !.elapsed = 0,
              !.acquired = Append(s.acquired,
                                  [first |-> s.last_request_time = 0, slept |-> 0,
                                   apart |-> s.elapsed])]

\* lines 39-47: _apply_rate_limit() sleeps for what is missing to
\* rate_limit_delay since _last_request_time, if that is set, and then puts the
\* time it reads into _last_request_time
apply_rate_limit(s) ==
    LET sleep_time == IF s.last_request_time > 0 /\ s.elapsed < rate_limit_delay
                      THEN rate_limit_delay - s.elapsed
                      ELSE 0
    IN  [s EXCEPT !.last_request_time = 1,
                  !.elapsed = 0,
                  !.acquired = Append(s.acquired,
                                      [first |-> s.last_request_time = 0,
                                       slept |-> sleep_time,
                                       apart |-> s.elapsed + sleep_time])]

\* lines 85-86, 177-178, 366-369 and 380-383: each request of the try block
\* comes after an _apply_rate_limit(); answered is the time the series lookup's
\* first request took
Attempt(c, outcome, body) ==
    /\ call[c].pc = "attempt"
    /\ outcome \in Outcomes(call[c].kind)
    /\ body \in Bodies(call[c].kind, outcome)
    /\ call' = [call EXCEPT ![c] = AttemptResult(call[c], outcome, body)]
    /\ \E answered \in 0..rate_limit_delay :
           LET first == apply_rate_limit([svc[c] EXCEPT !.acquired = <<>>])
           IN  svc' = [svc EXCEPT ![c] =
                          IF Requests(call[c].kind, outcome) = 1 THEN first
                          ELSE apply_rate_limit([first EXCEPT !.elapsed = answered])]
    /\ UNCHANGED <<DEFAULT_MIRRORS, mirrors, current_index, file, alive, disk, ret, cycle, edited>>

\* lines 98-100, 203-205, 409-411: next_mirror() in the except clause
Advance(c) ==
    /\ call[c].pc = "failed"
    /\ next_mirror
    /\ cycle' = NoCycle
    /\ call' = [call EXCEPT ![c] =
           IF ret'.exc # "" THEN Ended(call[c], ret'.exc)
           ELSE IF ~ret'.ok THEN [call[c] EXCEPT !.pc = "after_loop"]
           ELSE [call[c] EXCEPT !.pc = "loop"]]
    /\ UNCHANGED <<svc, edited>>

\* lines 103-107, 208-212, 413-417: after the loop
AfterLoop(c) ==
    /\ call[c].pc = "after_loop"
    /\ reset_to_primary
    /\ cycle' = NoCycle
    /\ call' = [call EXCEPT ![c] =
           IF ret'.exc # "" THEN Ended(call[c], ret'.exc)
           ELSE IF call[c].last_error # 0
           THEN [Ended(call[c], "RequestException") EXCEPT !.error = call[c].last_error]
           ELSE Ended(call[c], "AllMirrorsFailed")]
    /\ UNCHANGED <<svc, edited>>

BeginCall == \E kind \in CallKinds : Begin(1, kind) /\ UNCHANGED svc
TopOfLoop == LoopHead(1)
TryMirror ==
    \E outcome \in Outcomes(call[1].kind) :
        \E body \in Bodies(call[1].kind, outcome) : Attempt(1, outcome, body)
OnFailure == Advance(1)
Exhausted == AfterLoop(1)

NextFallback ==
    \/ BeginCall
    \/ TopOfLoop
    \/ TryMirror
    \/ OnFailure
    \/ Exhausted

\* one caller making one fallback call after another on the manager
SpecFallback == Init /\ [][NextFallback]_vars

\* a fallback call begins and the observer keeps nothing of the call before
BeginFresh(c, kinds) ==
    \E kind \in kinds :
        /\ alive
        /\ ~Running(c)
        /\ BeginWithin(c, kind)
        /\ UNCHANGED svc

----------------------------------------------------------------------------
(* Calls that run concurrently.  Neither the service nor the manager holds a *)
(* lock, so the statements of next_mirror() interleave with the steps of     *)
(* another call and with the operations of the settings tab.                 *)

\* next_mirror() in the except clause, statement by statement: lines 317-322
\* compute next_index; line 323 assigns it and line 324 saves; lines 325-326
\* read self._mirrors[self._current_index]
AdvanceByStatement(c) ==
    LET cl == call[c]
        r == next_index(mirrors, current_index)
    IN  /\ cl.pc \in {"failed", "assign", "switched"}
        /\ cycle' = NoCycle
        /\ UNCHANGED <<DEFAULT_MIRRORS, alive, disk, mirrors, svc, edited>>
        /\ CASE cl.pc = "failed" ->
                    /\ UNCHANGED <<current_index, file>>
                    /\ IF r.none
                       THEN /\ ret' = Ret("next_mirror", FALSE, "None")
                            /\ call' = [call EXCEPT ![c] = [cl EXCEPT !.pc = "after_loop"]]
                       ELSE /\ ret' = ret
                            /\ call' = [call EXCEPT ![c] =
                                           [cl EXCEPT !.pc = "assign", !.next_index = r.index]]
             [] cl.pc = "assign" ->
                    /\ current_index' = cl.next_index
                    /\ file' = save_config(mirrors, current_index', file)
                    /\ IF SaveRaises
                       THEN /\ ret' = Raised("next_mirror", "OSError")
                            /\ call' = [call EXCEPT ![c] = Ended(cl, "OSError")]
                       ELSE /\ ret' = ret
                            /\ call' = [call EXCEPT ![c] = [cl EXCEPT !.pc = "switched"]]
             [] cl.pc = "switched" ->
                    /\ UNCHANGED <<current_index, file>>
                    /\ IF InIndexRange(mirrors, current_index)
                       THEN /\ ret' = Ret("next_mirror", TRUE, "")
                            /\ call' = [call EXCEPT ![c] = [cl EXCEPT !.pc = "loop"]]
                       ELSE /\ ret' = Raised("next_mirror", "IndexError")
                            /\ call' = [call EXCEPT ![c] = Ended(cl, "IndexError")]

\* a step of a caller's _request_with_fallback call; each caller makes one call
CallStep(c) ==
    \/ call[c].pc = "idle" /\ BeginFresh(c, {"request"})
    \/ LoopHead(c)
    \/ \E outcome \in Outcomes("request") : Attempt(c, outcome, <<>>)
    \/ AdvanceByStatement(c)
    \/ AfterLoop(c)

NextCalls == \E c \in Callers : CallStep(c)

\* two callers on a manager that was constructed without a persisted file
SpecCalls == Constructed(FileAbsent, "ok") /\ [][NextCalls]_vars

\* the settings tab performs one operation while the calls run
NextConcurrent ==
    \/ NextCalls
    \/ ~edited /\ AddMirror
    \/ ~edited /\ RemoveMirror
    \/ ~edited /\ MoveMirror
    \/ ~edited /\ ResetToDefaults

\* two callers and the settings tab on that manager
SpecConcurrent == Constructed(FileAbsent, "ok") /\ [][NextConcurrent]_vars

\* time.time() moves on by one tick
Tick ==
    /\ svc[1].last_request_time > 0
    /\ svc[1].elapsed < rate_limit_delay
    /\ svc' = [svc EXCEPT ![1].elapsed = svc[1].elapsed + 1]
    /\ UNCHANGED <<DEFAULT_MIRRORS, mirrors, current_index, file, alive, disk, ret, cycle, edited, call>>

NextRateLimit ==
    \/ BeginFresh(1, CallKinds)
    \/ TopOfLoop
    \/ TryMirror
    \/ OnFailure
    \/ Exhausted
    \/ Tick

\* the fallback calls of one caller while time passes
SpecRateLimit == Init /\ [][NextRateLimit]_vars

----------------------------------------------------------------------------
(* BatoService.search_manga and BatoService.get_series_info. *)

\* CONFIG.service.bato_max_search_pages
max_search_pages == 3

\* NormalizedQuery with a fault seeded, for C21: the query is taken as it is
NormalizedQuery_Unstripped(query) == query

\* line 220: query.strip()
NormalizedQuery(query) == Strip(query)

\* lines 224-225: the max_pages argument, <<>> for None and <<n>> for n
MaxPages(arg) == IF arg = <<>> THEN max_search_pages ELSE arg[1]

\* LastPage with a fault seeded, for C22: the range ends one page later
LastPage_OneMore(max_pages) == IF max_pages >= 1 THEN max_pages + 1 ELSE 2

\* line 230: range(1, max(1, max_pages) + 1) ends with this page
LastPage(max_pages) == IF max_pages >= 1 THEN max_pages ELSE 1

SearchHit(item, base_url) ==
    [title |-> item.name, url |-> UrlJoin(base_url, item.urlPath), subtitle |-> item.slug]

\* AddHits with a fault seeded, for C23: a url seen before is not skipped
RECURSIVE AddHits_KeepsRepeats(_, _, _)
AddHits_KeepsRepeats(results, items, base_url) ==
    IF items = <<>> THEN results
    ELSE IF Head(items).urlPath = <<>>
    THEN AddHits_KeepsRepeats(results, Tail(items), base_url)
    ELSE AddHits_KeepsRepeats(Append(results, SearchHit(Head(items), base_url)),
                              Tail(items), base_url)

\* lines 240-257: the items of one page are added to results; seen_urls is the
\* set of the urls of results
RECURSIVE AddHits(_, _, _)
AddHits(results, items, base_url) ==
    LET seen_urls == {results[k].url : k \in 1..Len(results)}
    IN  IF items = <<>> THEN results
        ELSE IF Head(items).urlPath = <<>>
                \/ UrlJoin(base_url, Head(items).urlPath) \in seen_urls
        THEN AddHits(results, Tail(items), base_url)
        ELSE AddHits(Append(results, SearchHit(Head(items), base_url)), Tail(items), base_url)

\* the items of a page that have a urlPath, each as the hit it would make
Listed(items, base_url) ==
    LET HasPath(item) == item.urlPath # <<>>
        kept == SelectSeq(items, HasPath)
    IN  [k \in 1..Len(kept) |-> SearchHit(kept[k], base_url)]

\* an operation of the service begins: its locals are fresh, the rate limiter
\* keeps its time
Started(s, op, input) ==
    [IdleService EXCEPT !.op = op, !.input = input,
                        !.last_request_time = s.last_request_time,
                        !.elapsed = s.elapsed, !.acquired = s.acquired]

Returns(s, value) == [s EXCEPT !.pc = "done", !.result = "ok", !.value = value]
Raises(s, exc) == [s EXCEPT !.pc = "done", !.result = exc]

ServiceIdle(c) == svc[c].pc \in {"idle", "done"} /\ ~Running(c)

\* lines 220-235: search_manga up to its first _search_with_fallback call; an
\* empty range of pages returns the empty results
search_manga(c, query, max_pages) ==
    /\ alive
    /\ ServiceIdle(c)
    /\ LET s == [Started(svc[c], "search", query) EXCEPT
                    !.normalized_query = NormalizedQuery(query)]
       IN  IF s.normalized_query = <<>>
           THEN /\ svc' = [svc EXCEPT ![c] = Returns(s, <<>>)]
                /\ UNCHANGED <<DEFAULT_MIRRORS, mirrors, current_index, file, alive, disk,
                               ret, cycle, edited, call>>
           ELSE IF LastPage(MaxPages(max_pages)) < 1
           THEN /\ svc' = [svc EXCEPT ![c] =
                              Returns([s EXCEPT !.max_pages = MaxPages(max_pages)], <<>>)]
                /\ UNCHANGED <<DEFAULT_MIRRORS, mirrors, current_index, file, alive, disk,
                               ret, cycle, edited, call>>
           ELSE /\ svc' = [svc EXCEPT ![c] =
                              [s EXCEPT !.pc = "in_call", !.max_pages = MaxPages(max_pages),
                                        !.page = 1, !.pages = <<1>>]]
                /\ BeginWithin(c, "search")

\* lines 231-259: a _search_with_fallback call has ended; its exception leaves
\* search_manga, an empty page ends the loop, the items of another page are
\* added and the next page is asked for, if there is one
AfterPage(c) ==
    /\ svc[c].op = "search"
    /\ svc[c].pc = "in_call"
    /\ call[c].pc = "done"
    /\ LET s == svc[c]
           results == AddHits(s.results, call[c].body, call[c].payload)
           listed == s.listed \o Listed(call[c].body, call[c].payload)
       IN  IF call[c].result # "ok"
           THEN /\ svc' = [svc EXCEPT ![c] = Raises(s, call[c].result)]
                /\ UNCHANGED <<DEFAULT_MIRRORS, mirrors, current_index, file, alive, disk,
                               ret, cycle, edited, call>>
           ELSE IF call[c].body = <<>>
           THEN /\ svc' = [svc EXCEPT ![c] = Returns(s, s.results)]
                /\ UNCHANGED <<DEFAULT_MIRRORS, mirrors, current_index, file, alive, disk,
                               ret, cycle, edited, call>>
           ELSE IF s.page < LastPage(s.max_pages)
           THEN /\ svc' = [svc EXCEPT ![c] =
                              [s EXCEPT !.results = results, !.listed = listed,
                                        !.page = s.page + 1,
                                        !.pages = Append(s.pages, s.page + 1)]]
                /\ BeginWithin(c, "search")
           ELSE /\ svc' = [svc EXCEPT ![c] =
                              Returns([s EXCEPT !.results = results, !.listed = listed], results)]
                /\ UNCHANGED <<DEFAULT_MIRRORS, mirrors, current_index, file, alive, disk,
                               ret, cycle, edited, call>>

\* DigitPrefix with a fault seeded, for C25: any segment counts as an id
DigitPrefix_AnyText(t) == t

\* the leading digits of a path segment, on the segments the model uses
DigitPrefix(t) ==
    CASE t = "1-one" -> "1"
      [] t = "2-two" -> "2"
      [] t = "77" -> "77"
      [] OTHER -> ""

\* line 273: re.search(r"/title/(\d+)", path), the places where it matches
ComicIdAt(path) ==
    {i \in 1..(Len(path) - 3) :
        /\ path[i] = "/"
        /\ path[i + 1] = "title"
        /\ path[i + 2] = "/"
        /\ DigitPrefix(path[i + 3]) # ""}

HasComicId(path) == ComicIdAt(path) # {}

\* lines 289-293: Authors and Genres are entered when they are not empty
Attributes(data) ==
    [k \in ((IF data.authors # <<>> THEN {"Authors"} ELSE {})
                \cup (IF data.genres # <<>> THEN {"Genres"} ELSE {})) |->
        IF k = "Authors" THEN data.authors ELSE data.genres]

ChapterRef(ch, base_url) ==
    [title |-> ch.dname, url |-> UrlJoin(base_url, ch.urlPath), label |-> ch.dname]

\* Chapters with a fault seeded, for C28: the list is reversed at the end
RECURSIVE Chapters_Reversed(_, _)
Chapters_Reversed(chapters_data, base_url) ==
    IF chapters_data = <<>> THEN <<>>
    ELSE IF Head(chapters_data).urlPath = <<>>
    THEN Chapters_Reversed(Tail(chapters_data), base_url)
    ELSE Append(Chapters_Reversed(Tail(chapters_data), base_url),
                ChapterRef(Head(chapters_data), base_url))

\* lines 296-306: one entry per item with a urlPath, appended in the order of
\* chapters_data
RECURSIVE Chapters(_, _)
Chapters(chapters_data, base_url) ==
    IF chapters_data = <<>> THEN <<>>
    ELSE IF Head(chapters_data).urlPath = <<>>
    THEN Chapters(Tail(chapters_data), base_url)
    ELSE <<ChapterRef(Head(chapters_data), base_url)>>
             \o Chapters(Tail(chapters_data), base_url)

\* lines 282-314: what get_series_info makes of the two responses
SeriesInfo(body, base_url, path) ==
    [title |-> body.comic.data.name,
     description |-> body.comic.data.summary,
     attributes |-> Attributes(body.comic.data),
     chapters |-> Chapters(body.chapters.list, base_url),
     url |-> UrlJoin(base_url, path)]

\* lines 271-279: get_series_info up to its _get_series_info_graphql call
get_series_info(c, series_url) ==
    /\ alive
    /\ ServiceIdle(c)
    /\ LET s == Started(svc[c], "series", series_url)
       IN  IF ~HasComicId(UrlParse(series_url).path)
           THEN /\ svc' = [svc EXCEPT ![c] = Raises(s, "ValueError")]
                /\ UNCHANGED <<DEFAULT_MIRRORS, mirrors, current_index, file, alive, disk,
                               ret, cycle, edited, call>>
           ELSE /\ svc' = [svc EXCEPT ![c] = [s EXCEPT !.pc = "in_call"]]
                /\ BeginWithin(c, "series")

\* lines 279-314: the _get_series_info_graphql call has ended
AfterSeries(c) ==
    /\ svc[c].op = "series"
    /\ svc[c].pc = "in_call"
    /\ call[c].pc = "done"
    /\ svc' = [svc EXCEPT ![c] =
           IF call[c].result # "ok"
           THEN Raises(svc[c], call[c].result)
           ELSE Returns(svc[c], SeriesInfo(call[c].body, call[c].payload,
                                           UrlParse(svc[c].input).path))]
    /\ UNCHANGED <<DEFAULT_MIRRORS, mirrors, current_index, file, alive, disk, ret, cycle, edited, call>>

\* the queries and page limits search_manga is called with
Queries == {<<>>, <<" ", " ">>, <<" ", "one", " ">>}
MaxPagesInputs == {<<>>, <<-1>>, <<0>>, <<1>>, <<2>>}

\* the URLs get_series_info is called with
SeriesUrls ==
    { BATO_TO \o TITLE_ONE,
      BATO_TO \o <<"/", "series", "/", "1-one">>,
      BATO_TO \o <<"/", "title", "/", "one">>,
      BATO_TO }

SearchManga == \E q \in Queries : \E mp \in MaxPagesInputs : search_manga(1, q, mp)
PageAnswered == AfterPage(1)
GetSeriesInfo == \E url \in SeriesUrls : get_series_info(1, url)
SeriesAnswered == AfterSeries(1)

NextService ==
    \/ SearchManga
    \/ PageAnswered
    \/ GetSeriesInfo
    \/ SeriesAnswered
    \/ TopOfLoop
    \/ TryMirror
    \/ OnFailure
    \/ Exhausted

\* one caller making one search or series lookup after another
SpecService == Init /\ [][NextService]_vars

----------------------------------------------------------------------------
(* Properties. *)

Positions(ms) == 0..(Len(ms) - 1)
BaseUrls(ms) == {ms[i].base_url : i \in 1..Len(ms)}
Times(seq, P(_)) == Cardinality({k \in 1..Len(seq) : P(seq[k])})

\* a call that ended by raising the RequestException it recorded
RaisedLastError(cl) == cl.pc = "done" /\ cl.result = "RequestException"
AllFailed(cl) == \A k \in 1..Len(cl.attempts) : cl.attempts[k].outcome \in Failures

\* three records with three different origins
ThreeMirrors == Len(mirrors) = 3 /\ Cardinality(BaseUrls(mirrors)) = 3

\* A and B failed, then C answered, starting from A
ScenarioABC(attempts) ==
    /\ Len(attempts) = 3
    /\ \A k \in 1..3 : attempts[k].index = k - 1 /\ attempts[k].base = mirrors[k].base_url
    /\ attempts[1].outcome = "fail"
    /\ attempts[2].outcome = "fail"
    /\ attempts[3].outcome = "ok"

\* C1: a run of next_mirror() calls that started at an in-range index s of a
\* store of at least two mirrors and has just returned None has returned every
\* mirror other than the one at s exactly once, and never the one at s.
C1_AdvanceVisitsEveryOtherMirror ==
    (cycle.active /\ cycle.ended /\ Len(mirrors) >= 2 /\ cycle.start \in Positions(mirrors)) =>
        /\ \A i \in Positions(mirrors) \ {cycle.start} :
               LET IsI(x) == x = i IN Times(cycle.returned, IsI) = 1
        /\ \A k \in 1..Len(cycle.returned) : cycle.returned[k] # cycle.start

\* C2: a fallback call in which every attempt failed and which reported that
\* failure has attempted each configured mirror exactly once.
C2_EveryMirrorAttemptedOnce ==
    \A c \in Callers :
        (RaisedLastError(call[c]) /\ AllFailed(call[c])) =>
            \A i \in Positions(mirrors) :
                LET AtI(a) == a.index = i IN Times(call[c].attempts, AtI) = 1

\* C3: a fallback call reports the mirrors' failure only after every configured
\* mirror has been attempted and has failed in that call.
C3_FailureOnlyAfterAllMirrorsFailed ==
    \A c \in Callers :
        RaisedLastError(call[c]) =>
            \A i \in Positions(mirrors) :
                \E k \in 1..Len(call[c].attempts) :
                    call[c].attempts[k].index = i /\ call[c].attempts[k].outcome # "ok"

\* C4: when a fallback call has ended in failure, current_index is 0, the file
\* holds that 0 if the call changed current_index, and the failure that reached
\* the caller is the one of the last mirror attempted.
C4_FailureLeavesPrimary ==
    \A c \in Callers :
        (call[c].pc = "done" /\ call[c].result \notin {"", "ok"}) =>
            /\ current_index = 0
            /\ call[c].attempts # <<>>
            /\ call[c].error = Len(call[c].attempts)
            /\ (call[c].attempts[1].index # 0 \/ Len(call[c].attempts) > 1) =>
                   (file.kind = "object" /\ file.current_index = JInt(0))

\* C5: with mirrors [A, B, C] and current = A, a call in which A and B fail and
\* C succeeds returns C's payload and leaves current_index = 2, and the caller's
\* next call makes its first attempt against C.
C5_SuccessOnFallbackMirrorStays ==
    \A c \in Callers :
        /\ (ThreeMirrors /\ call[c].pc = "done" /\ ScenarioABC(call[c].attempts)) =>
               /\ call[c].result = "ok"
               /\ call[c].payload = mirrors[3].base_url
               /\ current_index = 2
        /\ (ThreeMirrors /\ ScenarioABC(call[c].prev.attempts)) =>
               /\ call[c].pc \in {"loop", "attempt"} => current_index = 2
               /\ call[c].attempts # <<>> =>
                      /\ call[c].attempts[1].index = 2
                      /\ call[c].attempts[1].base = mirrors[3].base_url

\* C5 witness: after the scenario, the next call has made its first attempt
C5_Witness ==
    \E c \in Callers :
        /\ ThreeMirrors
        /\ ScenarioABC(call[c].prev.attempts)
        /\ call[c].prev.result = "ok"
        /\ call[c].attempts # <<>>

\* C6: with mirrors [A, B, C] and current = C, a call whose attempt on C fails
\* attempts A next, ends without success and leaves current_index = 0.
C6_WraparoundToPrimary ==
    \A c \in Callers :
        (/\ ThreeMirrors
         /\ call[c].pc = "done"
         /\ call[c].attempts # <<>>
         /\ call[c].attempts[1].index = 2
         /\ call[c].attempts[1].outcome = "fail") =>
            /\ Len(call[c].attempts) >= 2
            /\ call[c].attempts[2].index = 0
            /\ call[c].attempts[2].base = mirrors[1].base_url
            /\ call[c].result # "ok"
            /\ current_index = 0

\* C7: the record list is never empty and current_index is a position of it.
C7_IndexInRange == alive => (mirrors # <<>> /\ current_index \in Positions(mirrors))

\* C8: every record's base_url is non-empty and no two records share one.
C8_BaseUrlsUnique ==
    alive =>
        /\ \A i \in 1..Len(mirrors) : mirrors[i].base_url # <<>>
        /\ \A i, j \in 1..Len(mirrors) : mirrors[i].base_url = mirrors[j].base_url => i = j

\* what a successful add_mirror_from_url(url) has to leave behind
AddKeepsDistinct(url) ==
    LET config == parse_search_url(url)
        known == config.base_url \in BaseUrls(mirrors)
        k == FindBase(mirrors, config.base_url)
    IN  (Direct(add_mirror_from_url(url)) /\ ret'.ok) =>
            /\ Len(mirrors') = Cardinality(BaseUrls(mirrors) \cup {config.base_url})
            /\ current_index' = current_index
            /\ known =>
                   /\ Len(mirrors') = Len(mirrors)
                   /\ \A i \in 1..Len(mirrors) : mirrors'[i].base_url = mirrors[i].base_url
                   /\ \A i \in 1..Len(mirrors) : i # k => mirrors'[i] = mirrors[i]
                   /\ Cfg(mirrors'[k]) = config
            /\ ~known =>
                   /\ SubSeq(mirrors', 1, Len(mirrors)) = mirrors
                   /\ Cfg(mirrors'[Len(mirrors')]) = config

\* C9: a successful add_mirror_from_url leaves as many records as there are
\* distinct base_urls among the records before it and the added URL; an
\* existing base_url keeps the length, the order and current_index and changes
\* only that record's search_path and search_params; a new base_url is appended
\* at the end with current_index as it was.
C9_AddKeepsOneRecordPerBaseUrl == [][\A url \in AddUrls : AddKeepsDistinct(url)]_vars

\* what remove_mirror(i) has to leave behind
RemoveRefuses(i) ==
    Direct(remove_mirror(i)) =>
        /\ Len(mirrors') >= 1
        /\ (Len(mirrors) = 1 \/ i \notin Positions(mirrors)) =>
               /\ ret'.exc = ""
               /\ ~ret'.ok
               /\ ret'.msg # ""
               /\ UNCHANGED <<mirrors, current_index, file>>

\* C10: remove(index) never leaves fewer than one record; on a store of one
\* record, or with an index outside the list, it reports failure with a reason
\* and changes neither the records, nor current_index, nor the file.
C10_RemoveKeepsOneRecord == [][Len(mirrors) >= 1 => \A i \in IndexInputs : RemoveRefuses(i)]_vars

\* C10 witness: the removal of the only record was refused
C10_Witness ==
    /\ ret.op = "remove_mirror"
    /\ ret.msg = "Cannot remove the last mirror"
    /\ Len(mirrors) = 1

\* what a successful remove_mirror(i) has to leave in current_index
RemoveKeepsCurrent(i) ==
    (Direct(remove_mirror(i)) /\ ret'.ok) =>
        /\ current_index' \in Positions(mirrors')
        /\ (current_index \in Positions(mirrors) /\ i < current_index) =>
               /\ current_index' = current_index - 1
               /\ mirrors'[current_index' + 1] = mirrors[current_index + 1]
        /\ (current_index \in Positions(mirrors) /\ i > current_index) =>
               /\ current_index' = current_index
               /\ mirrors'[current_index' + 1] = mirrors[current_index + 1]
        /\ (i = current_index /\ i < Len(mirrors) - 1) =>
               mirrors'[current_index' + 1] = mirrors[i + 2]
        /\ (i = current_index /\ i = Len(mirrors) - 1) =>
               current_index' = Len(mirrors') - 1

\* C11: after a successful remove(index) current_index is in range; it
\* designates the record it designated before when another record was removed
\* (one less when index < current_index, the same number when index >
\* current_index), and the record that followed the removed one, or the new
\* last record, when the current record was removed.
C11_RemoveKeepsCurrentRecord == [][\A i \in IndexInputs : RemoveKeepsCurrent(i)]_vars

\* what move_mirror(i, j) has to leave behind
MoveRelocates(i, j) ==
    Direct(move_mirror(i, j)) =>
        /\ current_index' = current_index
        /\ (i \in Positions(mirrors) /\ i = j) =>
               ret'.ok /\ ret'.exc = "" /\ UNCHANGED <<mirrors, file>>
        /\ (i \notin Positions(mirrors) \/ j \notin Positions(mirrors)) =>
               ~ret'.ok /\ ret'.exc = "" /\ UNCHANGED <<mirrors, file>>
        /\ (i \in Positions(mirrors) /\ j \in Positions(mirrors) /\ i # j) =>
               /\ Len(mirrors') = Len(mirrors)
               /\ mirrors'[j + 1] = mirrors[i + 1]
               /\ Pop(mirrors', j) = Pop(mirrors, i)
               /\ \A e \in Range(mirrors) :
                      Cardinality({k \in 1..Len(mirrors') : mirrors'[k] = e})
                          = Cardinality({k \in 1..Len(mirrors) : mirrors[k] = e})

\* C12: move(from, to) with equal in-range indices succeeds and changes
\* nothing; with an index out of range it fails and leaves the records and the
\* file as they were; otherwise the record at from ends at to, the other
\* records keep their order, no record is lost or gained, and current_index
\* keeps its number.
C12_MoveRelocatesRecord == [][\A p \in MoveInputs : MoveRelocates(p[1], p[2])]_vars

\* C12 witness: the three built-in origins, reordered by a move
C12_Witness ==
    /\ ret.op = "move_mirror"
    /\ ret.ok
    /\ [k \in 1..Len(mirrors) |-> mirrors[k].base_url] = <<BATO_ING, BATO_TO, BATO_SI>>

\* C13: after reset_to_defaults(), whatever came before, the records are the
\* three built-in mirrors with search_path /v4x-search and search_params
\* {type: comic}, current_index is 0, and the file holds that state when the
\* write succeeds.
C13_ResetRestoresBuiltins ==
    [][Direct(reset_to_defaults) =>
           /\ Records(mirrors') = BUILTIN_MIRRORS
           /\ current_index' = 0
           /\ disk = "ok" => file' = Payload(BUILTIN_MIRRORS, 0)]_vars

\* C14: a reset_to_defaults() that directly follows a reset_to_defaults()
\* leaves the records and current_index as the first one left them.
C14_ResetToDefaultsIdempotent ==
    [][(ret.op = "reset_to_defaults" /\ Direct(reset_to_defaults)) =>
           /\ Records(mirrors') = Records(mirrors)
           /\ current_index' = current_index]_vars

\* C14 witness: the second of two resets in a row has returned
C14_Witness ==
    /\ ret.op = "reset_to_defaults"
    /\ ret.msg = "again"
    /\ ret.exc = ""

\* what a successful _save_config leaves: the file holds the records and the
\* index of the manager
Saved == alive /\ disk = "ok" /\ file = Payload(mirrors, current_index)

\* C15: a manager constructed on the location of a successful save holds the
\* same records in the same order and the same current_index as the manager
\* that saved.
C15_SaveLoadRoundTrip ==
    [][(Saved /\ Restart) =>
           /\ alive'
           /\ Records(mirrors') = Records(mirrors)
           /\ current_index' = current_index]_vars

\* C15 witness: a manager constructed from a file that a manager wrote after
\* adding a mirror with its own search path
C15_Witness ==
    /\ ret = NoRet
    /\ Saved
    /\ \E k \in 1..Len(mirrors) : mirrors[k].search_path = ALT_SEARCH

\* the constructor has just run on the file, and nothing else since
JustConstructed == ret.op \in {"", "__init__"}

\* a file with nothing to load: absent, no JSON, or an object whose mirrors
\* value is missing, no list, empty, or a list without a usable entry
NothingToLoad(f) ==
    \/ f.kind \in {"absent", "garbage"}
    \/ /\ f.kind = "object"
       /\ \/ f.mirrors.t # "list"
          \/ \A k \in 1..Len(f.mirrors.v) : ~Usable(f.mirrors.v[k])

\* C16: constructed on a file with nothing to load, the manager holds the
\* built-in mirrors and current_index = 0, whatever current_index the file
\* stores.
C16_DefaultsOnNothingToLoad ==
    (JustConstructed /\ NothingToLoad(file)) =>
        /\ alive
        /\ Records(mirrors) = BUILTIN_MIRRORS
        /\ current_index = 0

\* content the constructor has to recover from: no JSON, JSON that is no
\* object, a current_index that is no integer, a record with malformed fields
Malformed(f) ==
    \/ f.kind \in {"garbage", "nonobject"}
    \/ /\ f.kind = "object"
       /\ \/ f.current_index.t = "nonint"
          \/ f.mirrors.t = "list" /\ \E k \in 1..Len(f.mirrors.v) : EntryRaises(f.mirrors.v[k])

\* C17: the constructor never raises, and on malformed content it leaves the
\* built-in mirrors.
C17_ConstructorNeverRaises ==
    JustConstructed =>
        /\ alive
        /\ ret.exc = ""
        /\ Malformed(file) => Records(mirrors) = BUILTIN_MIRRORS

\* the usable entries of the file's mirrors list, in order
UsableEntries(f) == SelectSeq(f.mirrors.v, Usable)

\* b is s without its trailing slashes
WithoutTrailingSlash(b, s) ==
    /\ b = <<>> \/ b[Len(b)] # "/"
    /\ Len(b) <= Len(s)
    /\ SubSeq(s, 1, Len(b)) = b
    /\ \A j \in (Len(b) + 1)..Len(s) : s[j] = "/"

\* C18: a bare string s among the entries loaded is the record {s without
\* trailing slash, /v4x-search, {type: comic}}, at the position the string has
\* among the usable entries.
C18_LegacyStringUpgraded ==
    (ret = NoRet /\ alive /\ file.kind = "object" /\ file.mirrors.t = "list"
         /\ UsableEntries(file) # <<>>) =>
        /\ Len(mirrors) = Len(UsableEntries(file))
        /\ \A k \in 1..Len(UsableEntries(file)) :
               UsableEntries(file)[k].t = "str" =>
                   /\ WithoutTrailingSlash(mirrors[k].base_url, UsableEntries(file)[k].base_url)
                   /\ mirrors[k].search_path = <<"/", "v4x-search">>
                   /\ mirrors[k].search_params = (<<"type">> :> <<"comic">>)

\* C18 witness: the list of an older version has been loaded, its string
\* "https://m.x/" first
C18_Witness ==
    /\ ret = NoRet
    /\ alive
    /\ file.mirrors = LegacyList
    /\ mirrors[1].base_url = M_X
    /\ mirrors[2].base_url = BATO_SI

\* C19: when an operation has changed the records or current_index and the
\* write succeeded, the file holds the records and the current_index of the
\* manager.
C19_MutationsPersisted ==
    [][(disk = "ok" /\ (mirrors' # mirrors \/ current_index' # current_index)) =>
           file' = Payload(mirrors', current_index')]_vars

\* C19 witness: next_mirror() has moved the index and the file holds it
C19_Witness ==
    /\ disk = "ok"
    /\ ret.op = "next_mirror"
    /\ ret.ok
    /\ current_index = 1
    /\ file = Payload(mirrors, 1)

\* C20: no operation of the manager raises when persisting fails, and no
\* fallback call ends with the OSError of a failed save.
C20_SaveFailureSwallowed ==
    /\ ret.op # "__init__" => ret.exc = ""
    /\ \A c \in Callers : call[c].result # "OSError"

----------------------------------------------------------------------------
(* Properties of search_manga and get_series_info. *)

\* a text that is empty or holds nothing but whitespace
Blank(text) == \A i \in 1..Len(text) : text[i] = " "

\* the step in which caller c calls the service method op
Calls(c, op) == ServiceIdle(c) /\ svc'[c] # svc[c] /\ svc'[c].op = op

\* the step sends no request (requests are sent, and the rate limiter is asked,
\* only in an attempt of a fallback call) and changes nothing of the manager
TouchesNothing(c) ==
    /\ call' = call
    /\ svc'[c].last_request_time = svc[c].last_request_time
    /\ current_index' = current_index
    /\ mirrors' = mirrors
    /\ file' = file

\* C21: search_manga with an empty or whitespace-only query returns an empty
\* list at once: no fallback call begins, so no request is sent and the rate
\* limiter is not asked, and current_index and the file stay as they are.
C21_BlankSearchTouchesNothing ==
    [][\A c \in Callers :
           (Calls(c, "search") /\ Blank(svc'[c].input)) =>
               /\ svc'[c].pc = "done"
               /\ svc'[c].result = "ok"
               /\ svc'[c].value = <<>>
               /\ TouchesNothing(c)]_vars

\* C21 witness: a whitespace-only query has been answered, after a request of
\* an earlier operation had set the rate limiter's time
C21_Witness ==
    \E c \in Callers :
        /\ svc[c].op = "search"
        /\ svc[c].pc = "done"
        /\ svc[c].input = <<" ", " ">>
        /\ svc[c].value = <<>>
        /\ svc[c].last_request_time = 1
        /\ current_index = 1

\* a search of caller c with a query that is not blank, in the state after the step
NonBlankSearch(c) == svc'[c].op = "search" /\ ~Blank(svc'[c].input)

\* the step asks for a page: the search begins, or goes on to its next page
PageRequested(c) ==
    svc'[c].pc = "in_call" /\ (svc[c].pc # "in_call" \/ svc'[c].page # svc[c].page)

\* the step consumes a page that came back without items
EmptyPageAnswered(c) ==
    /\ svc[c].op = "search"
    /\ svc[c].pc = "in_call"
    /\ call[c].pc = "done"
    /\ call[c].result = "ok"
    /\ call[c].body = <<>>
    /\ svc'[c] # svc[c]

\* C22 as stated: a non-blank search asks for at most max_pages pages, for
\* every integer max_pages, values below 1 included.
C22_PagesAtMostMaxPages ==
    \A c \in Callers :
        (svc[c].op = "search" /\ ~Blank(svc[c].input)) =>
            Len(svc[c].pages) <= svc[c].max_pages

\* C22, amended: a non-blank search asks for pages 1, 2, ... in ascending order,
\* one fallback call per page, for page 1 always and for at most max_pages pages
\* when max_pages is 1 or more; a page without items ends the search normally,
\* with the hits gathered so far, and no further page is asked for.
C22_PagesInOrderUpToLimit ==
    [][\A c \in Callers :
           /\ NonBlankSearch(c) =>
                  /\ \A k \in 1..Len(svc'[c].pages) : svc'[c].pages[k] = k
                  /\ Len(svc'[c].pages) >= 1
                  /\ svc'[c].max_pages >= 1 => Len(svc'[c].pages) <= svc'[c].max_pages
                  /\ svc'[c].max_pages < 1 => Len(svc'[c].pages) = 1
           /\ (NonBlankSearch(c) /\ PageRequested(c)) =>
                  /\ svc'[c].page = Len(svc'[c].pages)
                  /\ call'[c].kind = "search"
                  /\ call'[c].attempts = <<>>
                  /\ call'[c].pc \in {"loop", "done"}
           /\ (NonBlankSearch(c) /\ ~PageRequested(c)) =>
                  /\ svc'[c].pages = svc[c].pages
                  /\ Len(call'[c].attempts) >= Len(call[c].attempts)
           /\ EmptyPageAnswered(c) =>
                  /\ svc'[c].pc = "done"
                  /\ svc'[c].result = "ok"
                  /\ svc'[c].value = svc[c].results
                  /\ svc'[c].pages = svc[c].pages
                  /\ call' = call]_vars

\* C22 witness: a search with max_pages = 0 has asked for page 1, got a page
\* without items, and has returned
C22_Witness ==
    \E c \in Callers :
        /\ svc[c].op = "search"
        /\ svc[c].max_pages = 0
        /\ svc[c].pages = <<1>>
        /\ svc[c].pc = "done"
        /\ svc[c].result = "ok"
        /\ call[c].body = <<>>
        /\ call[c].result = "ok"

\* a search of caller c has returned its hits
SearchReturned(c) == svc[c].op = "search" /\ svc[c].pc = "done" /\ svc[c].result = "ok"

\* where a url is listed first among the items of all pages
FirstListed(listed, url) ==
    CHOOSE i \in 1..Len(listed) :
        listed[i].url = url /\ \A j \in 1..(i - 1) : listed[j].url # url

\* C23: the hits a search returns have pairwise different urls; every url
\* listed by a page is among them; each hit has the title and subtitle of the
\* first item listed with its url; and the hits are in the order in which their
\* urls were first listed.
C23_HitsUniqueFirstOccurrence ==
    \A c \in Callers :
        SearchReturned(c) =>
            LET hits == svc[c].value
                listed == svc[c].listed
            IN  /\ \A i, j \in 1..Len(hits) : i # j => hits[i].url # hits[j].url
                /\ {hits[k].url : k \in 1..Len(hits)} = {listed[k].url : k \in 1..Len(listed)}
                /\ \A k \in 1..Len(hits) : hits[k] = listed[FirstListed(listed, hits[k].url)]
                /\ \A k, l \in 1..Len(hits) :
                       k < l => FirstListed(listed, hits[k].url) < FirstListed(listed, hits[l].url)

\* C23 witness: a search over two pages has returned three hits or more, and
\* its pages listed a url again within a page and across pages
C23_Witness ==
    \E c \in Callers :
        /\ SearchReturned(c)
        /\ Len(svc[c].pages) >= 2
        /\ Len(svc[c].value) >= 3
        /\ Len(svc[c].listed) >= Len(svc[c].value) + 2
        /\ \E i, j \in 1..Len(svc[c].listed) :
               /\ i < j
               /\ svc[c].listed[i].url = svc[c].listed[j].url
               /\ svc[c].listed[j].title = "Two Later"

\* C24: when the fallback call for a page after the first has failed, the search
\* has raised that call's exception, has returned no hits, and current_index
\* is 0.
C24_LaterPageFailureRaises ==
    \A c \in Callers :
        (svc[c].op = "search" /\ svc[c].pc = "done" /\ Len(svc[c].pages) > 1
            /\ call[c].result # "ok") =>
            /\ svc[c].result = call[c].result
            /\ svc[c].value = <<>>
            /\ current_index = 0

\* the URLs among SeriesUrls whose path has no /title/<digits> segment
WithoutTitleId ==
    { BATO_TO \o <<"/", "series", "/", "1-one">>,
      BATO_TO \o <<"/", "title", "/", "one">>,
      BATO_TO }

\* C25: get_series_info with a URL whose path has no /title/<digits> segment
\* raises ValueError at once: no fallback call begins, so no request is sent and
\* the rate limiter is not asked, and current_index stays as it is.
C25_InvalidSeriesUrlRejected ==
    [][\A c \in Callers :
           (Calls(c, "series") /\ svc'[c].input \in WithoutTitleId) =>
               /\ svc'[c].pc = "done"
               /\ svc'[c].result = "ValueError"
               /\ TouchesNothing(c)]_vars

\* C25 witness: a URL with /title/ and no digits after it has been rejected,
\* after a request of an earlier operation had set the rate limiter's time and
\* left the second mirror current
C25_Witness ==
    \E c \in Callers :
        /\ svc[c].op = "series"
        /\ svc[c].pc = "done"
        /\ svc[c].result = "ValueError"
        /\ svc[c].input = BATO_TO \o <<"/", "title", "/", "one">>
        /\ svc[c].last_request_time = 1
        /\ current_index = 1

\* a series lookup whose fallback call has ended
SeriesCallEnded(c) == svc[c].op = "series" /\ call[c].kind = "series" /\ call[c].pc = "done"

\* C26: a series lookup returns only from an attempt in which the metadata
\* request and the chapter-list request were both answered, and that attempt is
\* its last; after an attempt whose chapter-list request failed the call goes on
\* with the mirror next_mirror() made current and sends both requests to it; the
\* metadata and the chapters returned come from the mirror of the last attempt.
C26_SeriesNeedsBothRequests ==
    \A c \in Callers :
        LET cl == call[c]
            n == Len(cl.attempts)
        IN  /\ (SeriesCallEnded(c) /\ cl.result = "ok") =>
                   /\ n >= 1
                   /\ cl.attempts[n].outcome = "ok"
                   /\ cl.attempts[n].requests = 2
                   /\ \A k \in 1..(n - 1) : cl.attempts[k].outcome \in Failures
                   /\ cl.body.comic.from = cl.attempts[n].base
                   /\ cl.body.chapters.from = cl.attempts[n].base
                   /\ cl.payload = cl.attempts[n].base
                   /\ cl.body.comic.data # ABANDONED.comic
            /\ (svc[c].op = "series" /\ cl.kind = "series") =>
                   \A k \in 1..n :
                       cl.attempts[k].outcome = "chapters_fail" =>
                           /\ cl.attempts[k].requests = 2
                           /\ ~(cl.pc = "done" /\ cl.result = "ok" /\ k = n)
                           /\ k < n =>
                                  /\ cl.attempts[k + 1].base # cl.attempts[k].base
                                  /\ cl.attempts[k + 1].outcome \in {"ok", "chapters_fail", "malformed"}
                                         => cl.attempts[k + 1].requests = 2

\* C26 witness: the first mirror answered the metadata request and failed the
\* chapter-list request, the second answered both, and the lookup returned the
\* second mirror's metadata and chapters
C26_Witness ==
    \E c \in Callers :
        /\ SeriesCallEnded(c)
        /\ svc[c].pc = "done"
        /\ svc[c].result = "ok"
        /\ Len(call[c].attempts) = 2
        /\ call[c].attempts[1].outcome = "chapters_fail"
        /\ call[c].attempts[2].outcome = "ok"
        /\ call[c].attempts[1].base = BATO_TO
        /\ call[c].body.comic.from = BATO_SI
        /\ call[c].body.chapters.from = BATO_SI
        /\ svc[c].value.title = "One"

\* a series lookup of caller c has returned
SeriesReturned(c) == SeriesCallEnded(c) /\ svc[c].pc = "done" /\ svc[c].result = "ok"

\* the chapters a lookup is to return for the upstream list, in upstream order:
\* the items with a urlPath, resolved against the mirror that answered
Upstream(c) ==
    LET HasPath(ch) == ch.urlPath # <<>>
        kept == SelectSeq(call[c].body.chapters.list, HasPath)
    IN  [k \in 1..Len(kept) |->
            [title |-> kept[k].dname, url |-> call[c].payload \o kept[k].urlPath,
             label |-> kept[k].dname]]

Reverse(seq) == [k \in 1..Len(seq) |-> seq[Len(seq) + 1 - k]]

\* C27: get_series_info returns the chapters in the reverse of the order in
\* which the upstream chapter list holds them.
C27_ChaptersReversed ==
    \A c \in Callers : SeriesReturned(c) => svc[c].value.chapters = Reverse(Upstream(c))

\* C28: get_series_info returns one chapter for each item of the upstream
\* chapter list that has a urlPath, in the order of the upstream list, and its
\* attributes hold Authors exactly when the authors are not empty and Genres
\* exactly when the genres are not empty, with the upstream values.
C28_ChaptersInUpstreamOrder ==
    \A c \in Callers :
        SeriesReturned(c) =>
            LET info == svc[c].value
                data == call[c].body.comic.data
            IN  /\ info.chapters = Upstream(c)
                /\ DOMAIN info.attributes \subseteq {"Authors", "Genres"}
                /\ "Authors" \in DOMAIN info.attributes <=> data.authors # <<>>
                /\ "Genres" \in DOMAIN info.attributes <=> data.genres # <<>>
                /\ "Authors" \in DOMAIN info.attributes => info.attributes["Authors"] = data.authors
                /\ "Genres" \in DOMAIN info.attributes => info.attributes["Genres"] = data.genres

\* C28 witness: a lookup has returned two chapters of a list of three items,
\* newest first as upstream listed them, with Authors and Genres
C28_Witness ==
    \E c \in Callers :
        /\ SeriesReturned(c)
        /\ Len(call[c].body.chapters.list) = 3
        /\ Len(svc[c].value.chapters) = 2
        /\ svc[c].value.chapters[1].title = "Ch 2"
        /\ svc[c].value.chapters[2].title = "Ch 1"
        /\ DOMAIN svc[c].value.attributes = {"Authors", "Genres"}

\* the step in which caller c's attempt on a mirror meets the given outcome
Met(c, outcome) ==
    /\ call[c].pc = "attempt"
    /\ Len(call'[c].attempts) = Len(call[c].attempts) + 1
    /\ call'[c].attempts[Len(call'[c].attempts)].outcome = outcome

\* C29: an attempt whose response carries an errors key is a failed attempt:
\* the call does not return, nothing of the response is kept as its result, the
\* exception is kept in last_error, and the step that follows is the call of
\* next_mirror(); no call returns from an attempt that met an errors key.
C29_ErrorsKeyFailsAttempt ==
    [][\A c \in Callers :
           /\ Met(c, "errors") =>
                  /\ call'[c].pc = "failed"
                  /\ call'[c].result = ""
                  /\ call'[c].body = <<>>
                  /\ call'[c].payload = <<>>
                  /\ call'[c].last_error = Len(call'[c].attempts)
           /\ (call[c].pc = "failed" /\ call'[c] # call[c]) => ret'.op = "next_mirror"
           /\ (call'[c].pc = "done" /\ call'[c].result = "ok") =>
                  call'[c].attempts[Len(call'[c].attempts)].outcome = "ok"]_vars

\* C29 witness: bato.to answered a search with an errors key, the manager
\* advanced, and bato.si's items were returned
C29_Witness ==
    \E c \in Callers :
        /\ call[c].kind = "search"
        /\ call[c].pc = "done"
        /\ call[c].result = "ok"
        /\ Len(call[c].attempts) = 2
        /\ call[c].attempts[1].outcome = "errors"
        /\ call[c].attempts[1].base = BATO_TO
        /\ call[c].payload = BATO_SI
        /\ call[c].body = PAGE_WITH_REPEAT
        /\ current_index = 1

\* C30: an attempt whose response body is no JSON, or is JSON whose data field
\* is no object, is a failed attempt like one that met a transport failure: its
\* exception does not reach the caller from that attempt, the call goes on to
\* next_mirror(), and when the call ends in failure current_index is 0.
C30_MalformedBodyIsFailedAttempt ==
    \A c \in Callers :
        LET cl == call[c]
            n == Len(cl.attempts)
        IN  (n >= 1 /\ cl.attempts[n].outcome \in {"not_json", "malformed"}) =>
                /\ cl.result # "AttributeError"
                /\ cl.last_error = n
                /\ (cl.pc = "done" /\ cl.result # "ok") =>
                       (cl.result = "RequestException" /\ current_index = 0)

----------------------------------------------------------------------------
(* parse_search_url called on its own.  ret holds the call: its argument    *)
(* and the value it returned (NONE for None).                               *)

\* the text of a list of query fields, joined by "&".  A field is its name, the
\* lowercase form of the name, and rest, the text after the name (nothing for a
\* field that is the bare name).
RECURSIVE QueryText(_)
QueryText(fs) ==
    IF fs = <<>> THEN <<>>
    ELSE IF Len(fs) = 1 THEN <<fs[1].name>> \o fs[1].rest
    ELSE <<fs[1].name>> \o fs[1].rest \o <<"&">> \o QueryText(Tail(fs))

\* A URL as the user may paste it: surrounding blanks, a scheme or none, a host
\* or none, a path or none, and a query.
UrlText(p) ==
    p.lead \o p.scheme \o p.host \o p.path
        \o (IF p.fields = <<>> THEN <<>> ELSE <<"?">> \o QueryText(p.fields)) \o p.lead

\* the URLs parse_search_url is called with, by their parts: every shape of URL
\* (a host with an unbalanced bracket among them) with the query
\* type=comic&word=test&page=2, every query of up to two fields on
\* bato.ing/v4x-search, and the URLs that are empty or blank
ParseInputs ==
    LET Field(n, l, rest) == [name |-> n, lower |-> l, rest |-> rest]
        Parts(l, s, h, p, fs) ==
            [lead |-> l, scheme |-> s, host |-> h, path |-> p, fields |-> fs]
        fields == { Field("type", "type", <<"=", "comic">>),
                    Field("type", "type", <<"=", "manga">>),
                    Field("Word", "word", <<"=", "test">>),
                    Field("word", "word", <<"=", "test">>),
                    Field("page", "page", <<"=", "2">>),
                    Field("lang", "lang", <<"=">>),
                    Field("sort", "sort", <<>>) }
        comic_test_2 == << Field("type", "type", <<"=", "comic">>),
                           Field("word", "word", <<"=", "test">>),
                           Field("page", "page", <<"=", "2">>) >>
        lists == {<<>>, comic_test_2} \cup {<<f>> : f \in fields}
                     \cup {<<f, g>> : f, g \in fields}
    IN  { Parts(l, s, h, p, comic_test_2) :
              l \in {<<>>, <<" ">>},
              s \in {<<>>, <<"http", "://">>, <<"https", "://">>},
              h \in {<<>>, <<"bato.ing">>, <<"[", "m.x">>},
              p \in {<<>>, V4X_SEARCH} }
            \cup { Parts(<<>>, s, <<"bato.ing">>, V4X_SEARCH, q) :
                       s \in {<<>>, <<"https", "://">>}, q \in lists }
            \cup { Parts(l, <<>>, <<>>, <<>>, <<>>) : l \in {<<>>, <<" ">>} }

\* everything after `url.strip()` runs inside `try: ... except Exception`, so
\* the call returns whatever happens
Parsed(url) ==
    [op |-> "parse_search_url", ok |-> parse_search_url(url) # NONE, msg |-> "",
     exc |-> "", arg |-> url, value |-> parse_search_url(url)]

ParseSearchUrl ==
    \E p \in ParseInputs :
        /\ ret' = Parsed(UrlText(p))
        /\ UNCHANGED <<DEFAULT_MIRRORS, mirrors, current_index, file, alive, disk, cycle,
                       edited, call, svc>>

NextParse == ParseSearchUrl

SpecParse == Init /\ [][NextParse]_vars

----------------------------------------------------------------------------
(* add_mirror_from_url and parse_search_url (C31..C33). *)

\* an empty URL, a URL of blanks, and a URL without a host
RejectedUrls == {<<>>, <<" ">>, <<"https", "://", "/", "search">>}

\* C31: add_mirror_from_url with a URL that parse_search_url rejects (empty,
\* whitespace-only, or without a host) returns (False, reason) and leaves the
\* records, current_index and the persisted file unchanged.
C31_RejectedUrlChangesNothing ==
    [][\A url \in RejectedUrls :
           add_mirror_from_url(url) =>
               /\ ret'.op = "add_mirror_from_url"
               /\ ~ret'.ok
               /\ ret'.msg # ""
               /\ ret'.exc = ""
               /\ mirrors' = mirrors
               /\ current_index' = current_index
               /\ file' = file]_vars

\* a rejected URL was given to a manager whose list is not the built-in one
C31_Witness ==
    /\ ret.op = "add_mirror_from_url"
    /\ ~ret.ok
    /\ ret.exc = ""
    /\ Len(mirrors) = 2
    /\ file # FileAbsent

\* bato.ing/v4x-search?type=comic&word=test&page=2
SCHEMELESS_SEARCH_URL ==
    <<"bato.ing", "/", "v4x-search", "?", "type", "=", "comic", "&", "word", "=", "test",
      "&", "page", "=", "2">>

ParseReturned == ret.op = "parse_search_url" /\ ret.exc = ""

\* C32: parse_search_url("bato.ing/v4x-search?type=comic&word=test&page=2")
\* yields base_url https://bato.ing, search_path /v4x-search and search_params
\* {type: comic}: the scheme is prepended and word and page are excluded.
C32_SchemelessSearchUrlParsed ==
    (ParseReturned /\ ret.arg = SCHEMELESS_SEARCH_URL) =>
        /\ ret.value # NONE
        /\ ret.value.base_url = <<"https", "://", "bato.ing">>
        /\ ret.value.search_path = <<"/", "v4x-search">>
        /\ DOMAIN ret.value.search_params = {<<"type">>}
        /\ ret.value.search_params[<<"type">>] = <<"comic">>

\* the URL was parsed and a mirror configuration came back
C32_Witness == ParseReturned /\ ret.arg = SCHEMELESS_SEARCH_URL /\ ret.ok

\* the fields of a query that carry a value
Valued(fs) == SelectSeq(fs, LAMBDA f : Len(f.rest) = 2)

UserSpecific == {"word", "page", "q", "query", "search", "keyword"}

\* what C33 says of the value returned for a URL made of the parts p
ParsedAsSpecified(p, value) ==
    LET fs == Valued(p.fields)
        names == {fs[k].name : k \in 1..Len(fs)}
        first(n) == CHOOSE k \in 1..Len(fs) :
                        fs[k].name = n /\ \A j \in 1..(k - 1) : fs[j].name # n
    IN  /\ p.host = <<>> => value = NONE
        /\ value # NONE =>
               /\ \A key \in DOMAIN value.search_params :
                      \A k \in 1..Len(fs) :
                          fs[k].name = key[1] => fs[k].lower \notin UserSpecific
               /\ \A k \in 1..Len(fs) :
                      fs[k].lower \notin UserSpecific =>
                          <<fs[k].name>> \in DOMAIN value.search_params
               /\ \A key \in DOMAIN value.search_params :
                      /\ key[1] \in names
                      /\ value.search_params[key] = <<fs[first(key[1])].rest[2]>>

\* C33: for every input parse_search_url never raises; it returns None for
\* empty or hostless input; and in every other result search_params holds no
\* key whose lowercase form is word, page, q, query, search or keyword, holds
\* every other query key that has a value, and maps a repeated key to the value
\* of its first occurrence (the first one that has a value).
C33_ParseNeverRaisesAndFilters ==
    ret.op = "parse_search_url" =>
        /\ ret.exc = ""
        /\ \A p \in ParseInputs : ret.arg = UrlText(p) => ParsedAsSpecified(p, ret.value)

\* a query naming type twice and a user-specific key in capitals was parsed
C33_Witness ==
    /\ ParseReturned
    /\ ret.ok
    /\ ret.arg = <<"bato.ing", "/", "v4x-search", "?", "type", "=", "manga", "&",
                    "type", "=", "comic">>
    /\ ret.value.search_params[<<"type">>] = <<"manga">>

----------------------------------------------------------------------------
(* The fallback loop of a single caller (C35, C36). *)

UniqueBaseUrls == Cardinality(BaseUrls(mirrors)) = Len(mirrors)

\* the step of the top of the loop that finds current_base in tried_mirrors
LeftThroughTriedCheck(c) == call[c].pc = "loop" /\ call'[c].pc = "after_loop"

\* C35: with a single caller and unique base_urls, a fallback call never leaves
\* its loop through the check for a base_url already tried, and whenever the
\* code after the loop runs a failure has been recorded, so the generic "all
\* mirrors failed" error is never raised.
C35_TriedCheckNeverEndsLoop ==
    [][\A c \in Callers :
           UniqueBaseUrls =>
               /\ ~LeftThroughTriedCheck(c)
               /\ call'[c].pc = "after_loop" => call'[c].last_error # 0
               /\ call'[c].result # "AllMirrorsFailed"]_vars

\* every mirror of three failed and the code after the loop raised the last failure
C35_Witness ==
    \E c \in Callers :
        /\ ThreeMirrors
        /\ RaisedLastError(call[c])
        /\ Len(call[c].attempts) = 3
        /\ call[c].error = 3

\* a step of a call that has met no failure so far
BeforeFirstFailure(c) ==
    /\ call'[c] # call[c]
    /\ call'[c].pc \in {"loop", "attempt", "done"}
    /\ call'[c].result \in {"", "ok"}
    /\ call'[c].last_error = 0

\* a step the call takes inside its loop
InsideLoop(c) == call[c].pc \in {"loop", "attempt", "failed"} /\ call'[c] # call[c]

\* C36: in a single-caller fallback call mirrors are attempted in strictly
\* increasing store-index order, starting with the mirror at current_index when
\* the call began; current_index never decreases during the call except for
\* the reset to 0 on exhaustion; and a call whose first attempt succeeds changes
\* neither current_index nor the persisted file.
C36_AttemptsInIncreasingIndexOrder ==
    [][\A c \in Callers :
           LET before == call[c].attempts
               after == call'[c].attempts
           IN  /\ \A k \in 1..(Len(after) - 1) : after[k].index < after[k + 1].index
               /\ (before = <<>> /\ after # <<>>) =>
                      /\ after[1].base = call[c].start_mirror
                      /\ after[1].index = Position(mirrors, current_index)
               /\ BeforeFirstFailure(c) => UNCHANGED <<current_index, file>>
               /\ InsideLoop(c) => current_index' >= current_index
               /\ (call[c].pc = "after_loop" /\ call'[c] # call[c]) =>
                      current_index' = 0]_vars

\* a call went from the first mirror to the third and was answered there
C36_Witness ==
    \E c \in Callers :
        /\ ThreeMirrors
        /\ call[c].pc = "done"
        /\ call[c].result = "ok"
        /\ ScenarioABC(call[c].attempts)
        /\ call[c].prev.result = "ok"
        /\ Len(call[c].prev.attempts) = 1

----------------------------------------------------------------------------
(* The rate limiter of one client instance (C34). *)

\* the step is an attempt of the caller's fallback call
Attempted(c) == call[c].pc = "attempt" /\ call'[c].pc # "attempt"

\* C34: for one client instance a rate-limit acquire precedes every network
\* request (each of the two requests of a series attempt and every fallback
\* attempt included), any two consecutive acquires complete at least the
\* configured minimum delay apart, and each acquire sets last_request_time to
\* the time after any wait, whether or not it waited.
C34_AcquireBeforeEveryRequest ==
    [][\A c \in Callers :
           LET sent == call'[c].attempts[Len(call'[c].attempts)].requests
               acquired == svc'[c].acquired
           IN  /\ Attempted(c) =>
                      /\ Len(acquired) = sent
                      /\ \A k \in 1..Len(acquired) :
                             /\ ~acquired[k].first => acquired[k].apart >= rate_limit_delay
                             /\ acquired[k].first => (k = 1 /\ svc[c].last_request_time = 0)
                      /\ svc'[c].last_request_time > 0
                      /\ svc'[c].elapsed = 0
               /\ ~Attempted(c) =>
                      /\ svc'[c].acquired = svc[c].acquired
                      /\ svc'[c].last_request_time = svc[c].last_request_time
                      /\ call'[c].attempts \in {call[c].attempts, <<>>}]_vars

\* a series attempt on the third mirror: its first acquire slept for the one
\* tick that was missing, its second did not sleep
C34_Witness ==
    \E c \in Callers :
        /\ call[c].kind = "series"
        /\ Len(call[c].attempts) = 3
        /\ call[c].attempts[3].requests = 2
        /\ Len(svc[c].acquired) = 2
        /\ svc[c].acquired[1].slept = 1
        /\ svc[c].acquired[2].slept = 0
        /\ svc[c].acquired[2].apart = rate_limit_delay
        /\ svc[c].elapsed = 0

----------------------------------------------------------------------------
(* Concurrent fallback calls and settings operations (C37..C39). *)

\* the base_urls a call has attempted
AttemptedBases(cl) == {cl.attempts[k].base : k \in 1..Len(cl.attempts)}

\* C37: under any interleaving of concurrent fallback calls and
\* mirror-management operations on the shared manager, a single fallback call
\* never attempts the same base_url twice and makes at most as many attempts as
\* there are distinct base_urls in the store during the call; each pass of its
\* loop makes one attempt or ends the loop.
C37_NoMirrorAttemptedTwice ==
    \A c \in Callers :
        LET cl == call[c]
        IN  /\ \A j, k \in 1..Len(cl.attempts) :
                   cl.attempts[j].base = cl.attempts[k].base => j = k
            /\ AttemptedBases(cl) \subseteq cl.seen
            /\ Len(cl.attempts) <= Cardinality(cl.seen)
            /\ Len(cl.tried_mirrors) \in {Len(cl.attempts), Len(cl.attempts) + 1}

\* a call found the mirror it was given already tried, after the other call and
\* the settings tab had moved the manager, and left its loop there
C37_Witness ==
    \E c, d \in Callers :
        /\ c # d
        /\ edited
        /\ call[c].pc = "after_loop"
        /\ Len(call[c].attempts) = 2
        /\ current_base_url(mirrors, current_index, DEFAULT_MIRRORS)
               \in Range(call[c].tried_mirrors)
        /\ call[d].attempts # <<>>

\* the mirrors from the one the call started with to the end of the list
FromStart(cl) ==
    {mirrors[k].base_url : k \in FindBase(mirrors, cl.start_mirror)..Len(mirrors)}

ReportedFailure(cl) == cl.pc = "done" /\ cl.result = "RequestException"

\* C38: concurrent fallback calls race on current_index: run alone, a call that
\* reports failure has attempted every mirror from its starting index on, and
\* there is an interleaving of two calls (C38_Witness) in which a call reports
\* failure without having attempted one of them.
C38_AloneEveryMirrorFromStartIsAttempted ==
    \A c, d \in Callers :
        (c # d /\ call[d] = IdleCall /\ ReportedFailure(call[c])) =>
            FromStart(call[c]) \subseteq AttemptedBases(call[c])

\* the first call started with the first mirror and reported failure without
\* an attempt on the second: the other call had moved current_index past it
C38_Witness ==
    \E c, d \in Callers :
        /\ c # d
        /\ ReportedFailure(call[c])
        /\ call[c].start_mirror = mirrors[1].base_url
        /\ mirrors[2].base_url \notin AttemptedBases(call[c])
        /\ mirrors[3].base_url \in AttemptedBases(call[c])
        /\ call[d].attempts # <<>>
        /\ call[d].attempts[1].base = mirrors[2].base_url

\* C39: current_index stays within [0, len(records)), and reading the current
\* mirror never fails, even when a remove(index) from the settings tab runs
\* between advance()'s computation of the next index and its assignment.
C39_IndexInRangeAcrossRemove ==
    /\ current_index \in Positions(mirrors)
    /\ \A c \in Callers : call[c].result # "IndexError"

====
